---------------------------- MODULE Spec2Model ----------------------------
(***************************************************************************)
(* A model of the path tracer tjg23/rust-ray-tracer: the math core         *)
(* (intervals, vectors, rays), the bounding boxes and the BVH, the scene   *)
(* nodes and their hit protocol, the materials, the radiance recursion     *)
(* Ray::send and the render loop of the camera.                            *)
(*                                                                         *)
(* Numbers.  An f64 is modelled as an extended rational <<n, d>>: d > 0    *)
(* and gcd(n, d) = 1 for a finite value, <<1, 0>> for +inf, <<-1, 0>> for  *)
(* -inf and <<0, 0>> for NaN.  The arithmetic is exact (no rounding) and   *)
(* follows IEEE 754 on the special values (1/0 = inf, 0 * inf = NaN,       *)
(* inf - inf = NaN, comparisons with NaN are false, min and max drop a     *)
(* NaN operand as Rust's f64::min and f64::max do).  The sign of zero is   *)
(* not modelled.  A square root is exact when the root is rational and is  *)
(* otherwise rounded down to a multiple of 1 / SqrtPrec.                   *)
(***************************************************************************)
EXTENDS Integers, Sequences, FiniteSets, TLC

(***************************************************************************)
(* f64                                                                     *)
(***************************************************************************)
Abs(n) == IF n < 0 THEN -n ELSE n

Sgn(n) == IF n < 0 THEN -1 ELSE IF n > 0 THEN 1 ELSE 0

\* gcd(|a|, b) for b >= 0.
RECURSIVE Gcd(_, _)
Gcd(a, b) == IF b = 0 THEN Abs(a) ELSE Gcd(b, a % b)

\* n / d divided through by g.
LowTerms(n, d, g) == <<n \div g, d \div g>>

\* The f64 of the fraction n / d, in normal form.
Q(n, d) ==
    IF d = 0 THEN <<Sgn(n), 0>>
    ELSE IF d < 0 THEN LowTerms(-n, -d, Gcd(n, -d))
    ELSE LowTerms(n, d, Gcd(n, d))

R(n) == <<n, 1>>

NaN == <<0, 0>>
INFINITY == <<1, 0>>
NEG_INFINITY == <<-1, 0>>

IsNaN(x) == x = NaN
IsFinite(x) == x[2] > 0

FNeg(x) == <<-x[1], x[2]>>

\* x + y of finite x and y whose denominators have the gcd g.
AddFinite(x, y, g) ==
    Q(x[1] * (y[2] \div g) + y[1] * (x[2] \div g), x[2] * (y[2] \div g))

FAdd(x, y) ==
    IF x[2] > 0 /\ y[2] > 0 THEN AddFinite(x, y, Gcd(x[2], y[2]))
    ELSE IF IsNaN(x) \/ IsNaN(y) THEN NaN
    ELSE IF x[2] = 0 /\ y[2] = 0 THEN (IF x = y THEN x ELSE NaN)
    ELSE IF x[2] = 0 THEN x
    ELSE y

FSub(x, y) == FAdd(x, FNeg(y))

\* x * y of finite x and y, cancelled crosswise by g1 = gcd(x[1], y[2]) and
\* g2 = gcd(y[1], x[2]).
MulFinite(x, y, g1, g2) ==
    <<(x[1] \div g1) * (y[1] \div g2), (x[2] \div g2) * (y[2] \div g1)>>

FMul(x, y) ==
    IF x[2] > 0 /\ y[2] > 0
    THEN MulFinite(x, y, Gcd(x[1], y[2]), Gcd(y[1], x[2]))
    ELSE IF IsNaN(x) \/ IsNaN(y) THEN NaN
    ELSE <<Sgn(x[1]) * Sgn(y[1]), 0>>

FDiv(x, y) ==
    IF IsNaN(x) \/ IsNaN(y) THEN NaN
    ELSE FMul(x, Q(y[2], y[1]))

\* a / b < c / d for b > 0 and d > 0, by continued fractions (no products).
RECURSIVE FracLess(_, _, _, _)
FracLess(a, b, c, d) ==
    LET q1 == a \div b
        q2 == c \div d
        r1 == a % b
        r2 == c % d
    IN  IF q1 # q2 THEN q1 < q2
        ELSE IF r1 = 0 \/ r2 = 0 THEN r1 = 0 /\ r2 > 0
        ELSE FracLess(d, r2, b, r1)

FLt(x, y) ==
    /\ ~IsNaN(x)
    /\ ~IsNaN(y)
    /\ IF x[2] = 0 \/ y[2] = 0
       THEN (IF x[2] = 0 /\ y[2] = 0 THEN x[1] < y[1]
             ELSE IF x[2] = 0 THEN x[1] < 0
             ELSE y[1] > 0)
       ELSE FracLess(x[1], x[2], y[1], y[2])

FLe(x, y) == ~IsNaN(x) /\ ~IsNaN(y) /\ (x = y \/ FLt(x, y))
FGt(x, y) == FLt(y, x)
FGe(x, y) == FLe(y, x)

\* f64::min and f64::max: a NaN operand is dropped.
FMin(x, y) ==
    IF IsNaN(x) THEN y ELSE IF IsNaN(y) THEN x ELSE IF FLt(y, x) THEN y ELSE x

FMax(x, y) ==
    IF IsNaN(x) THEN y ELSE IF IsNaN(y) THEN x ELSE IF FLt(x, y) THEN y ELSE x

FAbs(x) == <<Abs(x[1]), x[2]>>

RECURSIVE FPowi(_, _)
FPowi(x, k) == IF k = 0 THEN R(1) ELSE FMul(x, FPowi(x, k - 1))

\* The largest k in lo..hi with k * k <= n (lo * lo <= n is given).
RECURSIVE ISqrtIn(_, _, _)
ISqrtIn(n, lo, hi) ==
    IF lo >= hi THEN lo
    ELSE LET mid == (lo + hi + 1) \div 2
         IN  IF mid * mid <= n THEN ISqrtIn(n, mid, hi) ELSE ISqrtIn(n, lo, mid - 1)

ISqrt(n) == ISqrtIn(n, 0, IF n < 46340 THEN n ELSE 46340)

IsSquare(n) == n >= 0 /\ ISqrt(n) * ISqrt(n) = n

\* The steps per unit to which an irrational square root is rounded.
SqrtPrec == 256

\* The largest k in lo..hi with (k / SqrtPrec)^2 <= x (given for lo).
RECURSIVE RootIn(_, _, _)
RootIn(x, lo, hi) ==
    IF lo >= hi THEN lo
    ELSE LET mid == (lo + hi + 1) \div 2
         IN  IF FLe(Q(mid * mid, SqrtPrec * SqrtPrec), x)
             THEN RootIn(x, mid, hi) ELSE RootIn(x, lo, mid - 1)

\* sqrt: exact on the squares of fractions, else rounded down to a multiple
\* of 1 / SqrtPrec.
FSqrt(x) ==
    IF IsNaN(x) THEN NaN
    ELSE IF x[1] < 0 THEN NaN
    ELSE IF x[2] = 0 THEN INFINITY
    ELSE IF IsSquare(x[1]) /\ IsSquare(x[2]) THEN Q(ISqrt(x[1]), ISqrt(x[2]))
    ELSE Q(RootIn(x, 0, SqrtPrec * (ISqrt(x[1] \div x[2]) + 1)), SqrtPrec)

\* `x as i32` with rounding to the nearest integer instead of truncation.
FTrunc_nearest(x) ==
    IF IsNaN(x) \/ x[2] = 0 THEN 0
    ELSE IF x[1] >= 0 THEN (2 * x[1] + x[2]) \div (2 * x[2])
    ELSE -((2 * (-x[1]) + x[2]) \div (2 * x[2]))

\* `x as i32`: truncation toward zero; NaN gives 0 and the infinities
\* saturate (the finite values of the model are within i32).
FTrunc(x) ==
    IF IsNaN(x) THEN 0
    ELSE IF x[2] = 0 THEN (IF x[1] > 0 THEN 2147483647 ELSE -2147483647 - 1)
    ELSE IF x[1] >= 0 THEN x[1] \div x[2] ELSE -((-x[1]) \div x[2])

\* Option<T>: None is <<>>, Some(x) is <<x>>.
None == <<>>
Some(x) == <<x>>
IsSome(o) == o # <<>>

(***************************************************************************)
(* Vec3 (core/vec3.rs)                                                     *)
(***************************************************************************)
Vec3(x, y, z) == <<R(x), R(y), R(z)>>

VAdd(v, w) == <<FAdd(v[1], w[1]), FAdd(v[2], w[2]), FAdd(v[3], w[3])>>
VSub(v, w) == <<FSub(v[1], w[1]), FSub(v[2], w[2]), FSub(v[3], w[3])>>
VMul(v, w) == <<FMul(v[1], w[1]), FMul(v[2], w[2]), FMul(v[3], w[3])>>
VScale(v, s) == <<FMul(v[1], s), FMul(v[2], s), FMul(v[3], s)>>
VDivS(v, s) == <<FDiv(v[1], s), FDiv(v[2], s), FDiv(v[3], s)>>
VNeg(v) == <<FNeg(v[1]), FNeg(v[2]), FNeg(v[3])>>

cross(v, w) ==
    << FSub(FMul(v[2], w[3]), FMul(v[3], w[2])),
       FSub(FMul(v[3], w[1]), FMul(v[1], w[3])),
       FSub(FMul(v[1], w[2]), FMul(v[2], w[1])) >>

dot(v, w) == FAdd(FAdd(FMul(v[1], w[1]), FMul(v[2], w[2])), FMul(v[3], w[3]))

length_squared(v) == dot(v, v)
length(v) == FSqrt(length_squared(v))
unit(v) == VDivS(v, length(v))

near_zero(v) ==
    LET s == Q(1, 100000000)
    IN  FLt(FAbs(v[1]), s) /\ FLt(FAbs(v[2]), s) /\ FLt(FAbs(v[3]), s)

reflect(v, normal) == VSub(v, VScale(VScale(normal, R(2)), dot(v, normal)))

refract(v, normal, etai_over_etat) ==
    LET cos_theta == FMin(dot(VNeg(v), normal), R(1))
        r_out_perp == VScale(VAdd(v, VScale(normal, cos_theta)), etai_over_etat)
        r_out_parallel ==
            VScale(normal, FNeg(FSqrt(FAbs(FSub(R(1), length_squared(r_out_perp))))))
    IN  VAdd(r_out_perp, r_out_parallel)


(***************************************************************************)
(* Interval (core/interval.rs)                                             *)
(***************************************************************************)
Interval_new(min, max) == [start |-> min, end |-> max]
Interval_empty == [start |-> INFINITY, end |-> NEG_INFINITY]
Interval_universe == [start |-> NEG_INFINITY, end |-> INFINITY]
Interval_from_range(s, e) == [start |-> s, end |-> e]

Interval_add(i, rhs) == [start |-> FAdd(i.start, rhs), end |-> FAdd(i.end, rhs)]

Interval_from_pair(a, b) ==
    [start |-> FMin(a.start, b.start), end |-> FMax(a.end, b.end)]

size(i) == FSub(i.end, i.start)

contains(i, x) == FLe(i.start, x) /\ FLe(x, i.end)

surrounds(i, x) == FLt(i.start, x) /\ FLt(x, i.end)

\* A clamp that forgets the upper end.
Interval_clamp_noUpper(i, x) == IF FLt(x, i.start) THEN i.start ELSE x

Interval_clamp(i, x) ==
    IF FLt(x, i.start) THEN i.start
    ELSE IF FGt(x, i.end) THEN i.end
    ELSE x

expand(i, delta) == [start |-> FSub(i.start, delta), end |-> FAdd(i.end, delta)]

(***************************************************************************)
(* BoundingBox (models/bounds.rs): intervals[0..2] are axes 1..3.          *)
(***************************************************************************)
BoundingBox_empty == <<Interval_empty, Interval_empty, Interval_empty>>

PadAxis(i, delta) == IF FLt(size(i), delta) THEN expand(i, delta) ELSE i

\* A pad_min that pads by less than the minimum thickness needs.
pad_min_thin(b) ==
    LET delta == Q(1, 40000)
    IN  <<PadAxis(b[1], delta), PadAxis(b[2], delta), PadAxis(b[3], delta)>>

pad_min(b) ==
    LET delta == Q(1, 10000)
    IN  <<PadAxis(b[1], delta), PadAxis(b[2], delta), PadAxis(b[3], delta)>>

BoundingBox_new(x, y, z) == pad_min(<<x, y, z>>)

BoundingBox_from_points(a, b) ==
    LET x == Interval_new(FMin(a[1], b[1]), FMax(a[1], b[1]))
        y == Interval_new(FMin(a[2], b[2]), FMax(a[2], b[2]))
        z == Interval_new(FMin(a[3], b[3]), FMax(a[3], b[3]))
    IN  BoundingBox_new(x, y, z)

\* A union that keeps the first box's upper ends.
BoundingBox_from_boxes_keepEnd(a, b) ==
    BoundingBox_new([start |-> FMin(a[1].start, b[1].start), end |-> a[1].end],
                    [start |-> FMin(a[2].start, b[2].start), end |-> a[2].end],
                    [start |-> FMin(a[3].start, b[3].start), end |-> a[3].end])

BoundingBox_from_boxes(a, b) ==
    LET x == Interval_from_pair(a[1], b[1])
        y == Interval_from_pair(a[2], b[2])
        z == Interval_from_pair(a[3], b[3])
    IN  BoundingBox_new(x, y, z)

BoundingBox_add(b, rhs) ==
    <<Interval_add(b[1], rhs[1]), Interval_add(b[2], rhs[2]), Interval_add(b[3], rhs[3])>>

longest_axis(b) ==
    IF FGt(size(b[1]), size(b[2]))
    THEN (IF FGt(size(b[1]), size(b[3])) THEN 1 ELSE 3)
    ELSE (IF FGt(size(b[2]), size(b[3])) THEN 2 ELSE 3)

\* One axis of the slab test; every axis is clipped against the caller's
\* interval t (the narrowed interval is local to the loop body).
SlabAxis(b, ray, t, i) ==
    LET ax == b[i]
        adinv == FDiv(R(1), ray.direction[i])
        a0 == FMul(FSub(ax.start, ray.origin[i]), adinv)
        a1 == FMul(FSub(ax.end, ray.origin[i]), adinv)
        t0 == FMin(a0, a1)
        t1 == FMax(a0, a1)
        tt == Interval_new(FMax(t.start, t0), FMin(t.end, t1))
    IN  ~FLe(size(tt), R(0))

BoundingBox_hit(b, ray, t) ==
    SlabAxis(b, ray, t, 1) /\ SlabAxis(b, ray, t, 2) /\ SlabAxis(b, ray, t, 3)

(***************************************************************************)
(* Trigonometry.  sin and cos of an angle in degrees are tabulated: the    *)
(* multiples of 90 degrees, and 53 for the angle atan(4/3) = 53.13..       *)
(* degrees, whose sine and cosine are the rationals 4/5 and 3/5.  The      *)
(* inverse functions return the angle as a fraction of pi; they are exact  *)
(* on the multiples of 45 degrees and interpolate along the unit diamond   *)
(* between them.                                                           *)
(***************************************************************************)
Angles == {0, 53, 90, 180, 270}

SinDeg(angle) ==
    CASE angle = 0 -> R(0)
      [] angle = 53 -> Q(4, 5)
      [] angle = 90 -> R(1)
      [] angle = 180 -> R(0)
      [] angle = 270 -> R(-1)

CosDeg(angle) ==
    CASE angle = 0 -> R(1)
      [] angle = 53 -> Q(3, 5)
      [] angle = 90 -> R(0)
      [] angle = 180 -> R(-1)
      [] angle = 270 -> R(0)

\* atan2(y, x) / pi, in [-1, 1]; atan2(0, x) with x < 0 is taken as -pi when
\* neg_zero says that y is the negative zero.
Atan2OverPi(y, x, neg_zero) ==
    IF IsNaN(x) \/ IsNaN(y) THEN NaN
    ELSE IF x = R(0) /\ y = R(0) THEN R(0)
    ELSE LET d == FDiv(FAbs(y), FAdd(FAbs(x), FAbs(y)))
             q == IF FGe(x, R(0)) THEN FDiv(d, R(2)) ELSE FSub(R(1), FDiv(d, R(2)))
         IN  IF FLt(y, R(0)) \/ (y = R(0) /\ neg_zero) THEN FNeg(q) ELSE q

\* acos(x) / pi, in [0, 1]; NaN outside [-1, 1].
AcosOverPi(x) ==
    IF ~(FLe(R(-1), x) /\ FLe(x, R(1))) THEN NaN
    ELSE Atan2OverPi(FSqrt(FSub(R(1), FMul(x, x))), x, FALSE)

(***************************************************************************)
(* Textures (surfaces/textures.rs) and materials (surfaces/materials.rs)   *)
(***************************************************************************)
SolidColor_new(c) == [kind |-> "SolidColor", color |-> c]

Lambertian_from(albedo) == [kind |-> "Lambertian", texture |-> SolidColor_new(albedo)]

Metal_new(albedo, fuzz) ==
    IF FLt(fuzz, R(1))
    THEN [kind |-> "Metal", albedo |-> albedo, fuzz |-> fuzz]
    ELSE [kind |-> "Metal", albedo |-> albedo, fuzz |-> R(1)]

Dielectric_new(refraction_index) ==
    [kind |-> "Dielectric", refraction_index |-> refraction_index]

Invisible == [kind |-> "Invisible"]

DiffuseLight_from(c) == [kind |-> "DiffuseLight", texture |-> SolidColor_new(c)]

Isotropic_new(texture) == [kind |-> "Isotropic", texture |-> texture]

Texture_value(tex, u, v, p) ==
    CASE tex.kind = "SolidColor" -> tex.color

(***************************************************************************)
(* Ray (core/rays.rs) and HitRecord (models/hittable.rs)                   *)
(***************************************************************************)
Ray(origin, direction) == [origin |-> origin, direction |-> direction]

at(ray, t) == VAdd(ray.origin, VScale(ray.direction, t))

\* A HitRecord::new that never flips the normal.
HitRecord_new_noFlip(ray, t, point, normal, material) ==
    [point |-> point, normal |-> normal, t |-> t,
     front_face |-> FLt(dot(ray.direction, normal), R(0)),
     u |-> R(0), v |-> R(0), material |-> material, emitted |-> Vec3(0, 0, 0)]

HitRecord_new(ray, t, point, normal, material) ==
    LET front_face == FLt(dot(ray.direction, normal), R(0))
    IN  [point |-> point,
         normal |-> IF front_face THEN normal ELSE VNeg(normal),
         t |-> t,
         front_face |-> front_face,
         u |-> R(0), v |-> R(0),
         material |-> material,
         emitted |-> Vec3(0, 0, 0)]

set_uv(rec, u, v) == [rec EXCEPT !.u = u, !.v = v]

(***************************************************************************)
(* Material::scatter and Material::emitted (surfaces/materials.rs).  The   *)
(* vector of Vec3::random_unit() and the number of rand::random() are      *)
(* arguments.  A scatter result is None or Some of the scattered ray and   *)
(* the attenuation.                                                        *)
(***************************************************************************)
Scattered(ray, attenuation) == Some([ray |-> ray, attenuation |-> attenuation])

Lambertian_scatter(m, hit, random_unit) ==
    LET sum == VAdd(hit.normal, random_unit)
        scatter_direction == IF near_zero(sum) THEN hit.normal ELSE sum
    IN  Scattered(Ray(hit.point, scatter_direction),
                  Texture_value(m.texture, hit.u, hit.v, hit.point))

Metal_scatter(m, ray, hit, random_unit) ==
    Scattered(Ray(hit.point, VAdd(unit(reflect(ray.direction, hit.normal)),
                                  VScale(random_unit, m.fuzz))),
              m.albedo)

\* Schlick's approximation.
reflectance(cosine, refraction_index) ==
    LET r0 == FPowi(FDiv(FSub(R(1), refraction_index), FAdd(R(1), refraction_index)), 2)
    IN  FAdd(r0, FMul(FSub(R(1), r0), FPowi(FSub(R(1), cosine), 5)))

refraction_ratio(m, hit) ==
    IF hit.front_face THEN FDiv(R(1), m.refraction_index) ELSE m.refraction_index

\* The condition of the `if` of Dielectric::scatter: the reflect branch.
Dielectric_reflects(m, ray, hit, random) ==
    LET cos_theta == FMin(dot(VNeg(ray.direction), hit.normal), R(1))
        sin_theta == FSqrt(FSub(R(1), FMul(cos_theta, cos_theta)))
        cannot_refract == FGt(FMul(refraction_ratio(m, hit), sin_theta), R(1))
    IN  cannot_refract \/ FGt(reflectance(cos_theta, refraction_ratio(m, hit)), random)

Dielectric_scatter(m, ray, hit, random) ==
    IF Dielectric_reflects(m, ray, hit, random)
    THEN Scattered(Ray(hit.point, reflect(unit(ray.direction), hit.normal)),
                   Vec3(1, 1, 1))
    ELSE Scattered(Ray(hit.point, refract(unit(ray.direction), hit.normal,
                                          refraction_ratio(m, hit))),
                   Vec3(1, 1, 1))

Isotropic_scatter(m, hit, random_unit) ==
    Scattered(Ray(hit.point, random_unit),
              Texture_value(m.texture, hit.u, hit.v, hit.point))

scatter(m, ray, hit, random_unit, random) ==
    CASE m.kind = "Lambertian" -> Lambertian_scatter(m, hit, random_unit)
      [] m.kind = "Metal" -> Metal_scatter(m, ray, hit, random_unit)
      [] m.kind = "Dielectric" -> Dielectric_scatter(m, ray, hit, random)
      [] m.kind = "Isotropic" -> Isotropic_scatter(m, hit, random_unit)
      [] OTHER -> None

\* An emitted in which every textured material emits.
emitted_anyTexture(m, u, v, p) ==
    IF m.kind \in {"DiffuseLight", "Lambertian", "Isotropic"}
    THEN Texture_value(m.texture, u, v, p)
    ELSE Vec3(0, 0, 0)

emitted(m, u, v, p) ==
    IF m.kind = "DiffuseLight" THEN Texture_value(m.texture, u, v, p)
    ELSE Vec3(0, 0, 0)

(***************************************************************************)
(* Colors on output (core/vec3.rs)                                         *)
(***************************************************************************)
\* A to_gamma without the square root.
to_gamma_linear(c) ==
    << IF FGt(c[1], R(0)) THEN c[1] ELSE R(0),
       IF FGt(c[2], R(0)) THEN c[2] ELSE R(0),
       IF FGt(c[3], R(0)) THEN c[3] ELSE R(0) >>

to_gamma(c) ==
    << IF FGt(c[1], R(0)) THEN FSqrt(c[1]) ELSE R(0),
       IF FGt(c[2], R(0)) THEN FSqrt(c[2]) ELSE R(0),
       IF FGt(c[3], R(0)) THEN FSqrt(c[3]) ELSE R(0) >>

\* The three numbers of the printed line.
write_color(c) ==
    LET intensity == Interval_new(R(0), Q(999, 1000))
    IN  << FTrunc(FMul(R(256), Interval_clamp(intensity, c[1]))),
           FTrunc(FMul(R(256), Interval_clamp(intensity, c[2]))),
           FTrunc(FMul(R(256), Interval_clamp(intensity, c[3]))) >>

(***************************************************************************)
(* Scene nodes: constructors (models/shapes.rs, hittable.rs, volumes.rs)   *)
(***************************************************************************)
RECURSIVE bound(_)
bound(node) ==
    CASE node.kind = "Plane" -> BoundingBox_empty
      [] node.kind = "Planar" -> node.inner.bounds
      [] node.kind = "ConstantMedium" -> bound(node.boundary)
      [] OTHER -> node.bounds

Sphere_new(center, radius, material) ==
    [kind |-> "Sphere", center |-> center, radius |-> radius, material |-> material,
     bounds |-> BoundingBox_from_points(VSub(center, <<radius, radius, radius>>),
                                        VAdd(center, <<radius, radius, radius>>))]

Triangle_new(vertex, material) ==
    LET normal == cross(VSub(vertex[2], vertex[1]), VSub(vertex[3], vertex[1]))
        lo(k) == FMin(FMin(vertex[1][k], vertex[2][k]), vertex[3][k])
        hi(k) == FMax(FMax(vertex[1][k], vertex[2][k]), vertex[3][k])
    IN  [kind |-> "Triangle", vertex |-> vertex, normal |-> normal,
         material |-> material,
         bounds |-> BoundingBox_from_points(<<lo(1), lo(2), lo(3)>>,
                                            <<hi(1), hi(2), hi(3)>>)]

Parallelogram_new(corner, sides, material) ==
    LET n == cross(sides[1], sides[2])
        diagonal_bound_1 ==
            BoundingBox_from_points(corner, VAdd(VAdd(corner, sides[1]), sides[2]))
        diagonal_bound_2 ==
            BoundingBox_from_points(VAdd(corner, sides[1]), VAdd(corner, sides[2]))
    IN  [kind |-> "Parallelogram", corner |-> corner, sides |-> sides,
         normal |-> unit(n), w |-> VDivS(n, dot(n, n)), material |-> material,
         bounds |-> BoundingBox_from_boxes(diagonal_bound_1, diagonal_bound_2)]

Plane_new(point, normal) == [kind |-> "Plane", point |-> point, normal |-> normal]

Planar(inner) == [kind |-> "Planar", inner |-> inner]

HittableList_new == [kind |-> "HittableList", objects |-> <<>>, bounds |-> BoundingBox_empty]

add_arc(list, object) ==
    [list EXCEPT !.bounds = BoundingBox_from_boxes(list.bounds, bound(object)),
                 !.objects = Append(list.objects, object)]

HittableList_from(object) == add_arc(HittableList_new, object)

RECURSIVE ListOf(_)
ListOf(objs) ==
    IF objs = <<>> THEN HittableList_new
    ELSE add_arc(ListOf(SubSeq(objs, 1, Len(objs) - 1)), objs[Len(objs)])

Translation_new(object, offset) ==
    [kind |-> "Translation", object |-> object, offset |-> offset,
     bounds |-> BoundingBox_add(bound(object), offset)]

\* The eight corners of the loop of RotateY::new, as <<i, j, k>>.
Corners ==
    << <<0, 0, 0>>, <<0, 0, 1>>, <<0, 1, 0>>, <<0, 1, 1>>,
       <<1, 0, 0>>, <<1, 0, 1>>, <<1, 1, 0>>, <<1, 1, 1>> >>

RECURSIVE RotateY_bounds(_, _, _, _)
RotateY_bounds(bounds, sin_theta, cos_theta, n) ==
    IF n > Len(Corners) THEN bounds
    ELSE LET c == Corners[n]
             x == FAdd(FMul(R(c[1]), bounds[1].end), FMul(R(1 - c[1]), bounds[1].start))
             y == FAdd(FMul(R(c[2]), bounds[2].end), FMul(R(1 - c[2]), bounds[2].start))
             z == FAdd(FMul(R(c[3]), bounds[3].end), FMul(R(1 - c[3]), bounds[3].start))
             new_x == FAdd(FMul(cos_theta, x), FMul(sin_theta, z))
             new_z == FAdd(FMul(FNeg(sin_theta), x), FMul(cos_theta, z))
             tester == <<new_x, y, new_z>>
             grow(a) == Interval_from_pair(bounds[a], Interval_new(tester[a], tester[a]))
             grown == <<grow(1), grow(2), grow(3)>>
         IN  RotateY_bounds(grown, sin_theta, cos_theta, n + 1)

RotateY_new(object, angle) ==
    [kind |-> "RotateY", object |-> object,
     sin_theta |-> SinDeg(angle), cos_theta |-> CosDeg(angle),
     bounds |-> RotateY_bounds(bound(object), SinDeg(angle), CosDeg(angle), 1)]

ConstantMedium_new(boundary, density, texture) ==
    [kind |-> "ConstantMedium", boundary |-> boundary,
     neg_inv_density |-> FDiv(R(-1), density),
     phase_function |-> Isotropic_new(texture)]

parallelepiped(a, b, material) ==
    LET min == <<FMin(a[1], b[1]), FMin(a[2], b[2]), FMin(a[3], b[3])>>
        max == <<FMax(a[1], b[1]), FMax(a[2], b[2]), FMax(a[3], b[3])>>
        dx == <<FSub(max[1], min[1]), R(0), R(0)>>
        dy == <<R(0), FSub(max[2], min[2]), R(0)>>
        dz == <<R(0), R(0), FSub(max[3], min[3])>>
    IN  ListOf(<<
          Parallelogram_new(<<min[1], min[2], max[3]>>, <<dx, dy>>, material),
          Parallelogram_new(<<max[1], min[2], max[3]>>, <<VNeg(dz), dy>>, material),
          Parallelogram_new(<<max[1], min[2], min[3]>>, <<VNeg(dx), dy>>, material),
          Parallelogram_new(<<min[1], min[2], min[3]>>, <<dz, dy>>, material),
          Parallelogram_new(<<min[1], max[2], max[3]>>, <<dx, VNeg(dz)>>, material),
          Parallelogram_new(<<min[1], min[2], min[3]>>, <<dx, dz>>, material) >>)

(***************************************************************************)
(* The hit protocol.  Hit(node, ray, t, lnU) is node.hit(ray, t); lnU is   *)
(* the logarithm of the uniform draw of ConstantMedium::hit, the only      *)
(* random input of a query (one draw serves every medium of the query).    *)
(***************************************************************************)
RECURSIVE Hit(_, _, _, _)

get_uv(p) ==
    LET theta == AcosOverPi(FNeg(p[2]))
        phi == FAdd(Atan2OverPi(FNeg(p[3]), p[1], TRUE), R(1))
    IN  <<FDiv(phi, R(2)), theta>>

\* A Sphere::hit that tries the larger root first.
Sphere_hit_farFirst(s, ray, t_range) ==
    LET oc == VSub(s.center, ray.origin)
        a == length_squared(ray.direction)
        h == dot(ray.direction, oc)
        discriminant == FSub(FMul(h, h),
                             FMul(a, FSub(length_squared(oc), FMul(s.radius, s.radius))))
        root1 == FDiv(FAdd(h, FSqrt(discriminant)), a)
        root2 == FDiv(FSub(h, FSqrt(discriminant)), a)
        root == IF surrounds(t_range, root1) THEN root1 ELSE root2
        normal == VDivS(VSub(at(ray, root), s.center), s.radius)
    IN  IF FLt(discriminant, R(0)) \/ ~surrounds(t_range, root) THEN None
        ELSE Some(set_uv(HitRecord_new(ray, root, at(ray, root), normal, s.material),
                         get_uv(normal)[1], get_uv(normal)[2]))

\* Values the code computes once (let bindings) are the parameters of local
\* operators, here and below.
Sphere_hit(s, ray, t_range) ==
    LET record(root, point, normal) ==
            LET uv == get_uv(normal)
            IN  set_uv(HitRecord_new(ray, root, point, normal, s.material), uv[1], uv[2])
        at_root(root, point) ==
            Some(record(root, point, VDivS(VSub(point, s.center), s.radius)))
        nearest(root1, root2) ==
            IF surrounds(t_range, root1) THEN at_root(root1, at(ray, root1))
            ELSE IF surrounds(t_range, root2) THEN at_root(root2, at(ray, root2))
            ELSE None
        roots(a, h, sqrtd) == nearest(FDiv(FSub(h, sqrtd), a), FDiv(FAdd(h, sqrtd), a))
        solve(a, h, discriminant) ==
            IF FLt(discriminant, R(0)) THEN None ELSE roots(a, h, FSqrt(discriminant))
        quadratic(a, h, c) == solve(a, h, FSub(FMul(h, h), FMul(a, c)))
        from(oc) ==
            quadratic(length_squared(ray.direction), dot(ray.direction, oc),
                      FSub(length_squared(oc), FMul(s.radius, s.radius)))
    IN  from(VSub(s.center, ray.origin))

\* An is_interior that forgets alpha + beta <= 1.
Triangle_is_interior_noSum(alpha, beta) ==
    IF FLt(alpha, R(0)) \/ FLt(beta, R(0)) THEN None ELSE Some(<<alpha, beta>>)

Triangle_is_interior(alpha, beta) ==
    IF FLt(alpha, R(0)) \/ FLt(beta, R(0)) \/ FGt(FAdd(alpha, beta), R(1))
    THEN None ELSE Some(<<alpha, beta>>)

\* Triangle::hit reporting the parameter of the point it reports,
\* origin + 1 * direction.
Triangle_hit_atOne(tr, ray, t_range) ==
    LET v == tr.vertex
        normal == cross(VSub(v[2], v[1]), VSub(v[3], v[1]))
        p == VAdd(ray.direction, ray.origin)
        normal_a == cross(VSub(v[3], v[2]), VSub(p, v[2]))
        normal_b == cross(VSub(v[1], v[3]), VSub(p, v[3]))
        normal_c == cross(VSub(v[2], v[1]), VSub(p, v[1]))
        bary == VDivS(<<dot(normal, normal_a), dot(normal, normal_b), dot(normal, normal_c)>>,
                      length_squared(normal))
    IN  IF FGt(bary[1], R(0)) /\ FGt(bary[2], R(0)) /\ FGt(bary[3], R(0))
           /\ contains(t_range, R(1))
        THEN Some(HitRecord_new(ray, R(1), p, normal, tr.material))
        ELSE None

\* The standalone Triangle::hit: the interval is not read.
Triangle_hit(tr, ray, t_range) ==
    LET v == tr.vertex
        normal == cross(VSub(v[2], v[1]), VSub(v[3], v[1]))
        p == VAdd(ray.direction, ray.origin)
        normal_a == cross(VSub(v[3], v[2]), VSub(p, v[2]))
        normal_b == cross(VSub(v[1], v[3]), VSub(p, v[3]))
        normal_c == cross(VSub(v[2], v[1]), VSub(p, v[1]))
        bary == VDivS(<<dot(normal, normal_a), dot(normal, normal_b), dot(normal, normal_c)>>,
                      length_squared(normal))
    IN  IF FGt(bary[1], R(0)) /\ FGt(bary[2], R(0)) /\ FGt(bary[3], R(0))
        THEN Some(HitRecord_new(ray, R(0), p, normal, tr.material))
        ELSE None

Plane_hit(pl, ray, t_range) ==
    LET d == dot(pl.point, pl.normal)
        denominator == dot(ray.direction, pl.normal)
        t == FDiv(FSub(d, dot(ray.origin, pl.normal)), denominator)
    IN  IF FLt(FAbs(denominator), Q(1, 100000000)) THEN None
        ELSE IF ~contains(t_range, t) THEN None
        ELSE Some(HitRecord_new(ray, t, at(ray, t), pl.normal, Invisible))

\* An is_interior that tests alpha only.
Parallelogram_is_interior_alphaOnly(alpha, beta) ==
    IF ~contains(Interval_new(R(0), R(1)), alpha) THEN None ELSE Some(<<alpha, beta>>)

Parallelogram_is_interior(alpha, beta) ==
    IF ~contains(Interval_new(R(0), R(1)), alpha) \/ ~contains(Interval_new(R(0), R(1)), beta)
    THEN None ELSE Some(<<alpha, beta>>)

Parallelogram_hit(q, ray, t_range) ==
    LET plane == Plane_hit(Plane_new(q.corner, q.normal), ray, t_range)
    IN  IF plane = None THEN None
        ELSE LET record == plane[1]
                 p == VSub(record.point, q.corner)
                 alpha == dot(q.w, cross(p, q.sides[2]))
                 beta == dot(q.w, cross(q.sides[1], p))
                 uv == Parallelogram_is_interior(alpha, beta)
             IN  IF uv = None THEN None
                 ELSE Some(set_uv(HitRecord_new(ray, record.t, record.point, q.normal,
                                                q.material),
                                  uv[1][1], uv[1][2]))

Planar_hit(pn, ray, t_range) ==
    LET inner == pn.inner
        point == IF inner.kind = "Triangle" THEN inner.vertex[1] ELSE inner.corner
        normal == inner.normal
        material == inner.material
        plane == Plane_hit(Plane_new(point, normal), ray, t_range)
    IN  IF plane = None THEN None
        ELSE LET record == plane[1]
                 p == VSub(record.point, point)
                 w == VDivS(normal, dot(normal, normal))
                 uv == IF inner.kind = "Triangle"
                       THEN LET u == VSub(inner.vertex[2], inner.vertex[1])
                                v == VSub(inner.vertex[3], inner.vertex[1])
                            IN  Triangle_is_interior(dot(w, cross(p, v)), dot(w, cross(u, p)))
                       ELSE Parallelogram_is_interior(dot(inner.w, cross(p, inner.sides[2])),
                                                      dot(inner.w, cross(inner.sides[1], p)))
             IN  IF uv = None THEN None
                 ELSE Some(set_uv(HitRecord_new(ray, record.t, record.point, normal, material),
                                  uv[1][1], uv[1][2]))

\* The loop without `closest_so_far = record.t`: every object is asked
\* with the caller's interval, and the last one that is hit answers.
RECURSIVE List_scan_lastWins(_, _, _, _, _, _, _)
List_scan_lastWins(objects, n, ray, t_start, closest_so_far, hit_record, lnU) ==
    IF n > Len(objects) THEN hit_record
    ELSE LET got == Hit(objects[n], ray, Interval_from_range(t_start, closest_so_far), lnU)
         IN  IF got = None
             THEN List_scan_lastWins(objects, n + 1, ray, t_start, closest_so_far,
                                     hit_record, lnU)
             ELSE List_scan_lastWins(objects, n + 1, ray, t_start, closest_so_far, got, lnU)

\* The loop of HittableList::hit from object n on.
RECURSIVE List_scan(_, _, _, _, _, _, _)
List_scan(objects, n, ray, t_start, closest_so_far, hit_record, lnU) ==
    IF n > Len(objects) THEN hit_record
    ELSE LET got == Hit(objects[n], ray, Interval_from_range(t_start, closest_so_far), lnU)
         IN  IF got = None
             THEN List_scan(objects, n + 1, ray, t_start, closest_so_far, hit_record, lnU)
             ELSE List_scan(objects, n + 1, ray, t_start, got[1].t, got, lnU)

HittableList_hit(list, ray, t, lnU) ==
    List_scan(list.objects, 1, ray, t.start, t.end, None, lnU)

\* A BoundNode::hit that answers with the left child whenever it is hit.
BoundNode_hit_leftFirst(node, ray, t, lnU) ==
    IF ~BoundingBox_hit(node.bounds, ray, t) THEN None
    ELSE LET a == Hit(node.left, ray, t, lnU)
         IN  IF a # None THEN a ELSE Hit(node.right, ray, t, lnU)

BoundNode_hit(node, ray, t, lnU) ==
    IF ~BoundingBox_hit(node.bounds, ray, t) THEN None
    ELSE LET a == Hit(node.left, ray, t, lnU)
             b == Hit(node.right, ray, t, lnU)
         IN  IF a # None /\ b # None THEN (IF FLt(a[1].t, b[1].t) THEN a ELSE b)
             ELSE IF a # None THEN a
             ELSE IF b # None THEN b
             ELSE None

\* A Translation::hit that hands the ray on as it came.
Translation_hit_rayKept(tr, ray, t, lnU) ==
    LET record == Hit(tr.object, ray, t, lnU)
    IN  IF record # None
        THEN Some([record[1] EXCEPT !.point = VAdd(@, tr.offset)])
        ELSE None

Translation_hit(tr, ray, t, lnU) ==
    LET moved_ray == Ray(VSub(ray.origin, tr.offset), ray.direction)
        got == Hit(tr.object, moved_ray, t, lnU)
    IN  IF got = None THEN None
        ELSE Some([got[1] EXCEPT !.point = VAdd(got[1].point, tr.offset)])

\* A RotateY::hit that turns the hit point back and leaves the normal in
\* object space.
RotateY_hit_normalKept(rt, ray, t, lnU) ==
    LET c == rt.cos_theta
        s == rt.sin_theta
        o == ray.origin
        d == ray.direction
        rotated_ray ==
            Ray(<<FSub(FMul(c, o[1]), FMul(s, o[3])), o[2], FAdd(FMul(s, o[1]), FMul(c, o[3]))>>,
                <<FSub(FMul(c, d[1]), FMul(s, d[3])), d[2], FAdd(FMul(s, d[1]), FMul(c, d[3]))>>)
        got == Hit(rt.object, rotated_ray, t, lnU)
    IN  IF got = None THEN None
        ELSE LET p == got[1].point
             IN  Some([got[1] EXCEPT
                         !.point = <<FAdd(FMul(c, p[1]), FMul(s, p[3])), p[2],
                                     FAdd(FMul(FNeg(s), p[1]), FMul(c, p[3]))>>])

RotateY_hit(rt, ray, t, lnU) ==
    LET c == rt.cos_theta
        s == rt.sin_theta
        o == ray.origin
        d == ray.direction
        rotated_ray ==
            Ray(<<FSub(FMul(c, o[1]), FMul(s, o[3])), o[2], FAdd(FMul(s, o[1]), FMul(c, o[3]))>>,
                <<FSub(FMul(c, d[1]), FMul(s, d[3])), d[2], FAdd(FMul(s, d[1]), FMul(c, d[3]))>>)
        got == Hit(rt.object, rotated_ray, t, lnU)
    IN  IF got = None THEN None
        ELSE LET p == got[1].point
                 n == got[1].normal
             IN  Some([got[1] EXCEPT
                         !.point = <<FAdd(FMul(c, p[1]), FMul(s, p[3])), p[2],
                                     FAdd(FMul(FNeg(s), p[1]), FMul(c, p[3]))>>,
                         !.normal = <<FAdd(FMul(c, n[1]), FMul(s, n[3])), n[2],
                                      FAdd(FMul(FNeg(s), n[1]), FMul(c, n[3]))>>])

\* A ConstantMedium::hit that does not clip the exit to the query interval.
ConstantMedium_hit_exitUnclipped(m, ray, t, lnU) ==
    LET got1 == Hit(m.boundary, ray, Interval_universe, lnU)
    IN  IF got1 = None THEN None
        ELSE
        LET got2 == Hit(m.boundary, ray,
                        Interval_from_range(FAdd(got1[1].t, Q(1, 10000)), INFINITY), lnU)
        IN  IF got2 = None THEN None
            ELSE
            LET t1 == FMax(got1[1].t, t.start)
                t2 == got2[1].t
                entry == FMax(t1, R(0))
                ray_length == length(ray.direction)
                hit_distance == FMul(m.neg_inv_density, lnU)
                th == FAdd(entry, FDiv(hit_distance, ray_length))
            IN  IF FGe(t1, t2) THEN None
                ELSE IF FGt(hit_distance, FMul(FSub(t2, entry), ray_length)) THEN None
                ELSE Some(HitRecord_new(ray, th, at(ray, th), Vec3(1, 0, 0),
                                        m.phase_function))

ConstantMedium_hit(m, ray, t, lnU) ==
    LET got1 == Hit(m.boundary, ray, Interval_universe, lnU)
    IN  IF got1 = None THEN None
        ELSE
        LET got2 == Hit(m.boundary, ray,
                        Interval_from_range(FAdd(got1[1].t, Q(1, 10000)), INFINITY), lnU)
        IN  IF got2 = None THEN None
            ELSE
            LET t1 == FMax(got1[1].t, t.start)
                t2 == FMin(got2[1].t, t.end)
                entry == FMax(t1, R(0))
                ray_length == length(ray.direction)
                distance_inside_boundary == FMul(FSub(t2, entry), ray_length)
                hit_distance == FMul(m.neg_inv_density, lnU)
                th == FAdd(entry, FDiv(hit_distance, ray_length))
            IN  IF FGe(t1, t2) THEN None
                ELSE IF FGt(hit_distance, distance_inside_boundary) THEN None
                ELSE Some(HitRecord_new(ray, th, at(ray, th), Vec3(1, 0, 0),
                                        m.phase_function))

Hit(node, ray, t, lnU) ==
    CASE node.kind = "Sphere" -> Sphere_hit(node, ray, t)
      [] node.kind = "Triangle" -> Triangle_hit(node, ray, t)
      [] node.kind = "Parallelogram" -> Parallelogram_hit(node, ray, t)
      [] node.kind = "Plane" -> Plane_hit(node, ray, t)
      [] node.kind = "Planar" -> Planar_hit(node, ray, t)
      [] node.kind = "HittableList" -> HittableList_hit(node, ray, t, lnU)
      [] node.kind = "BoundNode" -> BoundNode_hit(node, ray, t, lnU)
      [] node.kind = "Translation" -> Translation_hit(node, ray, t, lnU)
      [] node.kind = "RotateY" -> RotateY_hit(node, ray, t, lnU)
      [] node.kind = "ConstantMedium" -> ConstantMedium_hit(node, ray, t, lnU)

(***************************************************************************)
(* BoundNode::from_objects (models/bounds.rs).  A range is start..end over *)
(* the 0-based indices of the vector; a panic is the value Panic(msg).     *)
(***************************************************************************)
Panic(msg) == [kind |-> "Panic", msg |-> msg]
IsPanic(x) == x.kind = "Panic"

\* The union of the boxes of objects[start..end), from the empty box.
\* Rust computes a let binding before the statements after it: Strict(v, e)
\* is e, with v computed first.
Strict(v, e) == CASE v = v -> e

RECURSIVE RangeBounds(_, _, _)
RangeBounds(objects, start, end) ==
    IF start >= end THEN BoundingBox_empty
    ELSE LET bounds == RangeBounds(objects, start, end - 1)
         IN  Strict(bounds, BoundingBox_from_boxes(bounds, bound(objects[end])))

\* The stable sort of slice::sort_by, ascending by the start of the box on the
\* axis; sorted is the sorted prefix, rest is still to insert.
RECURSIVE InsertByStart(_, _, _)
InsertByStart(sorted, x, axis) ==
    IF sorted = <<>> THEN <<x>>
    ELSE IF FLt(bound(x)[axis].start, bound(sorted[Len(sorted)])[axis].start)
         THEN Append(InsertByStart(SubSeq(sorted, 1, Len(sorted) - 1), x, axis),
                     sorted[Len(sorted)])
         ELSE Append(sorted, x)

\* A sort that leaves the slice as it is.
SortByStart_unsorted(objs, axis) == objs

RECURSIVE SortByStart(_, _)
SortByStart(objs, axis) ==
    IF objs = <<>> THEN <<>>
    ELSE LET sorted == SortByStart(SubSeq(objs, 1, Len(objs) - 1), axis)
         IN  Strict(sorted, InsertByStart(sorted, objs[Len(objs)], axis))

\* A from_objects whose third case splits one object too early.
RECURSIVE BoundNode_from_objects_earlySplit(_, _, _)
BoundNode_from_objects_earlySplit(objects, start, end) ==
    LET bounds == RangeBounds(objects, start, end)
        axis == longest_axis(bounds)
        span == end - start
    IN  Strict(axis,
        CASE span <= 0 -> Panic("No objects in range")
          [] span = 1 -> [kind |-> "BoundNode", bounds |-> bounds,
                          left |-> objects[start + 1], right |-> objects[start + 1]]
          [] span = 2 -> [kind |-> "BoundNode", bounds |-> bounds,
                          left |-> objects[start + 1], right |-> objects[start + 2]]
          [] OTHER ->
             LET sorted == SubSeq(objects, 1, start)
                             \o SortByStart(SubSeq(objects, start + 1, end), axis)
                             \o SubSeq(objects, end + 1, Len(objects))
                 mid == start + span \div 2
                 left == BoundNode_from_objects_earlySplit(sorted, start, mid - 1)
                 right == BoundNode_from_objects_earlySplit(sorted, mid, end)
             IN  Strict(sorted,
                 IF IsPanic(left) THEN left
                 ELSE IF IsPanic(right) THEN right
                 ELSE [kind |-> "BoundNode", bounds |-> bounds,
                       left |-> left, right |-> right]))

RECURSIVE BoundNode_from_objects(_, _, _)
BoundNode_from_objects(objects, start, end) ==
    LET bounds == RangeBounds(objects, start, end)
        axis == longest_axis(bounds)
        span == end - start
    IN  Strict(axis,
        CASE span <= 0 -> Panic("No objects in range")
          [] span = 1 -> [kind |-> "BoundNode", bounds |-> bounds,
                          left |-> objects[start + 1], right |-> objects[start + 1]]
          [] span = 2 -> [kind |-> "BoundNode", bounds |-> bounds,
                          left |-> objects[start + 1], right |-> objects[start + 2]]
          [] OTHER ->
             LET sorted == SubSeq(objects, 1, start)
                             \o SortByStart(SubSeq(objects, start + 1, end), axis)
                             \o SubSeq(objects, end + 1, Len(objects))
                 mid == start + span \div 2
                 left == BoundNode_from_objects(sorted, start, mid)
                 right == BoundNode_from_objects(sorted, mid, end)
             IN  Strict(sorted,
                 IF IsPanic(left) THEN left
                 ELSE IF IsPanic(right) THEN right
                 ELSE [kind |-> "BoundNode", bounds |-> bounds,
                       left |-> left, right |-> right]))

BoundNode_from_list(list) == BoundNode_from_objects(list.objects, 0, Len(list.objects))

(***************************************************************************)
(* State.  A call of a pure function is the triple op (the function),      *)
(* arg (its arguments) and ret (<<>> until it returned, then <<value>>).   *)
(* steps counts the steps a specification takes.                           *)
(***************************************************************************)
VARIABLES op, arg, ret, steps

vars == <<op, arg, ret, steps>>

(***************************************************************************)
(* Bounds of the input sets.                                               *)
(***************************************************************************)
\* Interval ends and clamped values are the halves -MaxHalf/2 .. MaxHalf/2.
MaxHalf == 3
\* A chain of bounding-box constructors is at most MaxChain calls long.
MaxChain == 2

(***************************************************************************)
(* Interval::clamp under every interval and every x of a small set.        *)
(***************************************************************************)
ClampNumbers == {Q(n, 2) : n \in -MaxHalf..MaxHalf} \cup {INFINITY, NEG_INFINITY}

ClampIntervals ==
    {Interval_new(a, b) : a \in ClampNumbers, b \in ClampNumbers}

InitInterval ==
    /\ op = "clamp"
    /\ arg \in {[iv |-> i, x |-> x] : i \in ClampIntervals, x \in ClampNumbers \cup {NaN}}
    /\ ret = None
    /\ steps = 0

Clamp ==
    /\ op = "clamp"
    /\ ret = None
    /\ ret' = Some(Interval_clamp(arg.iv, arg.x))
    /\ UNCHANGED <<op, arg, steps>>

NextInterval == Clamp

SpecInterval == InitInterval /\ [][NextInterval]_vars

\* The three cases of the clamp of x on the interval i with result r.
ClampCases(i, x, r) ==
    /\ (FLe(i.start, x) /\ FLe(x, i.end)) => r = x
    /\ FLt(x, i.start) => r = i.start
    /\ FGt(x, i.end) => r = i.end

\* C9 as stated: on an interval with start <= end, clamp(x) is x inside the
\* interval, start below it and end above it, and always lies in [start, end],
\* for every x.
C9_ClampPiecewise ==
    (op = "clamp" /\ IsSome(ret) /\ FLe(arg.iv.start, arg.iv.end)) =>
        /\ ClampCases(arg.iv, arg.x, ret[1])
        /\ FLe(arg.iv.start, ret[1]) /\ FLe(ret[1], arg.iv.end)

\* C9 amended: the three cases hold for every x; the result lies in
\* [start, end] for every x that is a number, and clamp(NaN) is NaN.
C9_ClampPiecewiseNumbers ==
    (op = "clamp" /\ IsSome(ret) /\ FLe(arg.iv.start, arg.iv.end)) =>
        /\ ClampCases(arg.iv, arg.x, ret[1])
        /\ ~IsNaN(arg.x) => FLe(arg.iv.start, ret[1]) /\ FLe(ret[1], arg.iv.end)
        /\ IsNaN(arg.x) => IsNaN(ret[1])

\* C9 witness: a clamp of an x above a finite interval returned the end.
C9_Witness ==
    /\ op = "clamp" /\ IsSome(ret)
    /\ FLt(arg.iv.start, arg.iv.end) /\ IsFinite(arg.iv.end)
    /\ FGt(arg.x, arg.iv.end)
    /\ ret[1] = arg.iv.end

(***************************************************************************)
(* Bounding boxes: every constructor, alone and applied to the box of an   *)
(* earlier call.  ret holds the box built last, arg the arguments.         *)
(***************************************************************************)
\* Coordinates: 0, half the minimum thickness, the minimum thickness, 1.
BoxCoords == {R(0), Q(1, 20000), Q(1, 10000), R(1)}

BoxPoints == {<<x, y, R(0)>> : x \in BoxCoords, y \in {R(0), R(1)}}
                \cup {<<R(0), R(0), z>> : z \in BoxCoords}

BoxIntervals == {Interval_new(a, b) : a \in {R(0), Q(1, 20000)}, b \in {Q(1, 20000), R(1)}}

BoxOffsets == {Vec3(0, 0, 0), Vec3(-2, 0, 1), <<Q(1, 20000), R(3), R(0)>>}

\* The boxes a constructor is handed besides the one built last.
OtherBoxes ==
    {BoundingBox_empty,
     BoundingBox_from_points(Vec3(0, 0, 0), Vec3(0, 0, 0)),
     BoundingBox_from_points(Vec3(-1, 2, 0), Vec3(1, 0, 0)),
     bound(Sphere_new(Vec3(1, 1, 1), R(2), Invisible))}

InitBox ==
    /\ op = "start"
    /\ arg = <<>>
    /\ ret = None
    /\ steps = 0

Built(name, args, box) ==
    /\ steps < MaxChain
    /\ steps' = steps + 1
    /\ op' = name
    /\ arg' = args
    /\ ret' = Some(box)

Box_empty == Built("empty", <<>>, BoundingBox_empty)

Box_new ==
    \E x \in BoxIntervals, y \in BoxIntervals, z \in BoxIntervals :
        Built("new", <<x, y, z>>, BoundingBox_new(x, y, z))

Box_from_points ==
    \E a \in BoxPoints, b \in BoxPoints :
        Built("from_points", <<a, b>>, BoundingBox_from_points(a, b))

\* from_boxes(a, b), as in HittableList::add_arc and BoundNode::from_objects:
\* a is the box built so far (or a fresh one), b the box of the next object.
Box_from_boxes ==
    \E a \in (IF IsSome(ret) THEN {ret[1]} ELSE OtherBoxes), b \in OtherBoxes :
        Built("from_boxes", <<a, b>>, BoundingBox_from_boxes(a, b))

\* box + offset, as in Translation::new.
Box_add ==
    \E a \in (IF IsSome(ret) THEN {ret[1]} ELSE OtherBoxes), offset \in BoxOffsets :
        Built("add", <<a, offset>>, BoundingBox_add(a, offset))

\* The box RotateY::new derives from the box of its object.
\* The irrational-step angle only turns boxes with whole coordinates; the
\* corners of the others would leave the range of the model's integers.
WholeBox(b) == \A k \in 1..3 : b[k].start[2] = 1 /\ b[k].end[2] = 1

Box_rotate ==
    \E a \in (IF IsSome(ret) THEN {ret[1]} ELSE OtherBoxes), angle \in Angles :
        /\ angle = 53 => WholeBox(a)
        /\ Built("rotate", <<a, angle>>,
                 RotateY_bounds(a, SinDeg(angle), CosDeg(angle), 1))

NextBox ==
    \/ Box_empty
    \/ Box_new
    \/ Box_from_points
    \/ Box_from_boxes
    \/ Box_add
    \/ Box_rotate

SpecBox == InitBox /\ [][NextBox]_vars

\* start <= end and end - start >= 1e-4 on the axis.
ThickAxis(i) == FLe(i.start, i.end) /\ FGe(size(i), Q(1, 10000))

ThickBox(b) == ThickAxis(b[1]) /\ ThickAxis(b[2]) /\ ThickAxis(b[3])

\* a \subseteq b on every axis.
BoxWithin(a, b) ==
    \A k \in 1..3 : FLe(b[k].start, a[k].start) /\ FGe(b[k].end, a[k].end)

C8_UnionContainsBoth ==
    (op = "from_boxes" /\ IsSome(ret)) =>
        BoxWithin(arg[1], ret[1]) /\ BoxWithin(arg[2], ret[1])

\* C8 witness: a union of two boxes neither of which contains the other.
C8_Witness ==
    /\ op = "from_boxes" /\ IsSome(ret)
    /\ ~BoxWithin(arg[1], arg[2]) /\ ~BoxWithin(arg[2], arg[1])
    /\ ThickBox(arg[1]) /\ ThickBox(arg[2])
    /\ ret[1] # arg[1] /\ ret[1] # arg[2]

(***************************************************************************)
(* The BVH against the linear scan: for a list of objects, a ray and an    *)
(* interval, HittableList::hit over the list and BoundNode::hit over the   *)
(* tree BoundNode::from_list builds from it.  ret holds the two answers.   *)
(***************************************************************************)
Grey == Lambertian_from(<<Q(1, 2), Q(1, 2), Q(1, 2)>>)

\* The objects of the lists: spheres of radius 5 along the axes and a
\* square in the plane z = 30.
BvhObjects ==
    << Sphere_new(Vec3(0, 0, 0), R(5), Grey),
       Sphere_new(Vec3(0, 0, 20), R(5), Grey),
       Sphere_new(Vec3(12, 0, 0), R(5), Grey),
       Planar(Parallelogram_new(Vec3(-5, -5, 30), <<Vec3(10, 0, 0), Vec3(0, 10, 0)>>, Grey)) >>

\* Lists of 1, 2, 3 and 4 objects, in and out of order along the axes.
BvhLists ==
    { <<BvhObjects[1]>>,
      <<BvhObjects[4]>>,
      <<BvhObjects[2], BvhObjects[1]>>,
      <<BvhObjects[3], BvhObjects[2], BvhObjects[1]>>,
      <<BvhObjects[4], BvhObjects[3], BvhObjects[2], BvhObjects[1]>> }

\* Rays through the middle of the objects, past them, along the x and z
\* axes, slanted, and along the faces x = 5 and x = -5 of the boxes.
BvhRays ==
    { Ray(Vec3(0, 0, -10), Vec3(0, 0, 1)),
      Ray(Vec3(12, 0, -10), Vec3(0, 0, 1)),
      Ray(Vec3(0, 0, 40), Vec3(0, 0, -1)),
      Ray(Vec3(-10, 0, 0), Vec3(1, 0, 0)),
      Ray(Vec3(-6, 0, -8), Vec3(3, 0, 4)),
      Ray(Vec3(0, 9, -10), Vec3(0, 0, 1)),
      Ray(Vec3(0, 0, -10), Vec3(0, 1, 0)),
      Ray(Vec3(5, 0, -10), Vec3(0, 0, 1)),
      Ray(Vec3(-5, 0, -10), Vec3(0, 0, 1)) }

\* The interval of Ray::send and two bounded ones.
BvhIntervals ==
    { Interval_from_range(Q(1, 10000), INFINITY),
      Interval_from_range(R(0), R(12)),
      Interval_from_range(R(20), R(45)) }

InitBVH ==
    /\ op = "start"
    /\ arg \in {[objects |-> l, ray |-> r, t |-> t] :
                   l \in BvhLists, r \in BvhRays, t \in BvhIntervals}
    /\ ret = Some([tree |-> None, asked |-> {}, scan |-> None, bvh |-> None])
    /\ steps = 0

\* BoundNode::from_list(world).
Build ==
    /\ ret[1].tree = None
    /\ op' = "from_list"
    /\ ret' = Some([ret[1] EXCEPT !.tree = Some(BoundNode_from_list(ListOf(arg.objects)))])
    /\ UNCHANGED <<arg, steps>>

\* root.hit(ray, t), on the flat list ("scan") or on the tree ("bvh").
Query ==
    \E which \in {"scan", "bvh"} \ ret[1].asked :
        /\ which = "bvh" => IsSome(ret[1].tree)
        /\ op' = "hit"
        /\ ret' = Some([ret[1] EXCEPT
                          !.asked = @ \cup {which},
                          ![which] = Hit(IF which = "scan" THEN ListOf(arg.objects)
                                                           ELSE ret[1].tree[1],
                                         arg.ray, arg.t, R(-1))])
        /\ UNCHANGED <<arg, steps>>

NextBVH == Build \/ Query

SpecBVH == InitBVH /\ [][NextBVH]_vars

\* C1: the BVH reports a hit exactly when the linear scan does, and both
\* report the same nearest t.
C1_BvhEqualsScan ==
    ret[1].asked = {"scan", "bvh"} =>
        /\ IsSome(ret[1].scan) <=> IsSome(ret[1].bvh)
        /\ (IsSome(ret[1].scan) /\ IsSome(ret[1].bvh)) =>
              ret[1].scan[1].t = ret[1].bvh[1].t

\* C1, the agreeing case: a list of three or more objects whose scan and
\* tree both answer, with the same t.
C1_AgreeWitness ==
    /\ ret[1].asked = {"scan", "bvh"}
    /\ Len(arg.objects) >= 3
    /\ IsSome(ret[1].scan) /\ IsSome(ret[1].bvh)
    /\ ret[1].scan[1].t = ret[1].bvh[1].t

(***************************************************************************)
(* Hittable::hit on a node of every kind and on nestings of them, for      *)
(* rays from outside and inside the objects.  arg is the call, ret the     *)
(* Option<HitRecord> it returned.                                          *)
(***************************************************************************)
Ball == Sphere_new(Vec3(0, 0, 0), R(5), Grey)

Square == Parallelogram_new(Vec3(-5, -5, 3), <<Vec3(10, 0, 0), Vec3(0, 10, 0)>>, Grey)

Slanted == Triangle_new(<<Vec3(-6, -6, 0), Vec3(6, -6, 0), Vec3(0, 6, 6)>>, Grey)

Crate == parallelepiped(Vec3(-2, -2, -2), Vec3(2, 2, 2), Grey)

Smoke == SolidColor_new(Vec3(1, 1, 1))

HitNodes ==
    << Ball,
       Sphere_new(Vec3(1, 0, 0), R(-2), Grey),
       Plane_new(Vec3(0, 0, 3), Vec3(0, 0, 1)),
       Square,
       Slanted,
       Planar(Slanted),
       Planar(Square),
       ListOf(<<Planar(Square), Ball>>),
       BoundNode_from_list(ListOf(<<Planar(Square), Ball, Planar(Slanted)>>)),
       Translation_new(Ball, Vec3(1, 0, 2)),
       RotateY_new(Sphere_new(Vec3(5, 0, 0), R(5), Grey), 53),
       RotateY_new(Planar(Slanted), 90),
       ConstantMedium_new(Ball, Q(1, 10), Smoke),
       Translation_new(RotateY_new(Crate, 90), Vec3(1, 0, 0)),
       ConstantMedium_new(Translation_new(RotateY_new(Crate, 270), Vec3(0, 0, 1)),
                          Q(1, 10), Smoke),
       RotateY_new(Translation_new(Ball, Vec3(5, 0, 0)), 53),
       ListOf(<<RotateY_new(Ball, 180), BoundNode_from_list(ListOf(<<Ball>>))>>) >>

\* Rays from outside, from inside the objects, along and against the axes,
\* slanted, touching, and missing.
HitRays ==
    { Ray(Vec3(0, 0, -10), Vec3(0, 0, 1)),
      Ray(Vec3(0, 0, 10), Vec3(0, 0, -2)),
      Ray(Vec3(0, 0, 0), Vec3(0, 0, 1)),
      Ray(Vec3(1, 0, 0), Vec3(-1, 0, 0)),
      Ray(Vec3(-10, 1, 0), Vec3(1, 0, 0)),
      Ray(Vec3(-6, 0, -8), Vec3(3, 0, 4)),
      Ray(Vec3(3, 0, -10), Vec3(0, 0, 1)),
      Ray(Vec3(1, 1, 1), Vec3(1, 2, -2)),
      Ray(Vec3(0, 10, 0), Vec3(0, -1, 0)),
      Ray(Vec3(0, 0, -10), Vec3(0, 1, 0)) }

HitIntervals ==
    { Interval_from_range(Q(1, 10000), INFINITY),
      Interval_universe,
      Interval_from_range(R(0), R(8)) }

\* ln(rand::random()): the draw of ConstantMedium::hit.
LnDraws == {Q(-1, 100), R(-1), NEG_INFINITY}

InitHit ==
    /\ op = "hit"
    /\ arg \in {[node |-> HitNodes[n], ray |-> r, t |-> t, lnU |-> l] :
                   n \in 1..Len(HitNodes), r \in HitRays, t \in HitIntervals, l \in LnDraws}
    /\ ret = None
    /\ steps = 0

\* node.hit(ray, t); steps = 1 once it returned.
Node_hit ==
    /\ op = "hit"
    /\ steps = 0
    /\ steps' = 1
    /\ ret' = Hit(arg.node, arg.ray, arg.t, arg.lnU)
    /\ UNCHANGED <<op, arg>>

NextHit == Node_hit

SpecHit == InitHit /\ [][NextHit]_vars

\* The nodes whose geometric normal at a point is known without knowing
\* which of several objects was hit.
RECURSIVE HasOutward(_)
HasOutward(node) ==
    CASE node.kind \in {"Sphere", "Plane", "Parallelogram", "Triangle", "Planar",
                        "ConstantMedium"} -> TRUE
      [] node.kind \in {"Translation", "RotateY"} -> HasOutward(node.object)
      [] OTHER -> FALSE

\* The geometric normal of the node at the point, in the caller's frame.
RECURSIVE Outward(_, _)
Outward(node, point) ==
    CASE node.kind = "Sphere" -> VDivS(VSub(point, node.center), node.radius)
      [] node.kind \in {"Plane", "Parallelogram"} -> node.normal
      [] node.kind = "Triangle" ->
            cross(VSub(node.vertex[2], node.vertex[1]), VSub(node.vertex[3], node.vertex[1]))
      [] node.kind = "Planar" -> node.inner.normal
      [] node.kind = "ConstantMedium" -> Vec3(1, 0, 0)
      [] node.kind = "Translation" -> Outward(node.object, VSub(point, node.offset))
      [] node.kind = "RotateY" ->
            LET c == node.cos_theta
                s == node.sin_theta
                q == <<FSub(FMul(c, point[1]), FMul(s, point[3])), point[2],
                       FAdd(FMul(s, point[1]), FMul(c, point[3]))>>
                g == Outward(node.object, q)
            IN  <<FAdd(FMul(c, g[1]), FMul(s, g[3])), g[2],
                  FAdd(FMul(FNeg(s), g[1]), FMul(c, g[3]))>>

\* C6: the normal of a returned record is against the caller's ray,
\* dot(ray.direction, normal) <= 0; front_face implies the dot product is
\* negative; and where the geometric normal g is known, front_face is
\* dot(ray.direction, g) < 0 and the normal is g if front_face, else -g.
C6_NormalAgainstRay ==
    (op = "hit" /\ IsSome(ret)) =>
        LET rec == ret[1]
            d == dot(arg.ray.direction, rec.normal)
        IN  /\ FLe(d, R(0))
            /\ rec.front_face => FLt(d, R(0))
            /\ HasOutward(arg.node) =>
                  LET g == Outward(arg.node, rec.point)
                  IN  /\ rec.front_face <=> FLt(dot(arg.ray.direction, g), R(0))
                      /\ rec.normal = IF rec.front_face THEN g ELSE VNeg(g)

\* C6 witness: a rotated object was hit from inside, so its normal was
\* flipped, and the returned normal is strictly against the ray.
C6_Witness ==
    /\ op = "hit" /\ IsSome(ret)
    /\ arg.node.kind = "RotateY"
    /\ arg.node.sin_theta \notin {R(0), R(1), R(-1)}
    /\ ~ret[1].front_face
    /\ FLt(dot(arg.ray.direction, ret[1].normal), R(0))

(***************************************************************************)
(* Dielectric::scatter on its own: glass of index 1.0 and 1.5, hit on the  *)
(* front and on the back face, head-on, slanted and grazing, by unit and   *)
(* by non-unit directions, for several values of the uniform draw.         *)
(***************************************************************************)
DielectricIndices == {R(1), Q(3, 2)}

DielectricDirections ==
    { Vec3(0, 0, -1),
      <<R(0), Q(-3, 5), Q(-4, 5)>>,
      <<Q(3, 5), R(0), Q(-4, 5)>>,
      <<R(0), Q(-4, 5), Q(-3, 5)>>,
      Vec3(0, -3, -4),
      Vec3(0, -4, -3),
      <<R(0), Q(-3, 10), Q(-2, 5)>>,
      Vec3(0, -1, 0) }

DielectricNormals == {Vec3(0, 0, 1), Vec3(0, 0, -1)}

\* rand::random() is in [0, 1).
UniformDraws == {R(0), Q(1, 1000), Q(1, 2), Q(999, 1000)}

InitDielectric ==
    /\ op = "scatter"
    /\ arg \in {[material |-> Dielectric_new(i),
                 ray |-> Ray(VNeg(d), d),
                 hit |-> HitRecord_new(Ray(VNeg(d), d), R(1), Vec3(0, 0, 0), n,
                                       Dielectric_new(i)),
                 random |-> u] :
                   i \in DielectricIndices, d \in DielectricDirections,
                   n \in DielectricNormals, u \in UniformDraws}
    /\ ret = None
    /\ steps = 0

\* material.scatter(ray, hit); steps = 1 once it returned.
Dielectric_scatters ==
    /\ op = "scatter"
    /\ steps = 0
    /\ steps' = 1
    /\ ret' = Dielectric_scatter(arg.material, arg.ray, arg.hit, arg.random)
    /\ UNCHANGED <<op, arg>>

NextDielectric == Dielectric_scatters

SpecDielectric == InitDielectric /\ [][NextDielectric]_vars

\* C10: a Dielectric of refraction index 1.0 always takes the refract branch
\* of scatter, whatever the ray, the face and the draw, and the scattered
\* direction is the normalized incident direction.
C10_IndexOneAlwaysRefracts ==
    (op = "scatter" /\ steps = 1 /\ arg.material.refraction_index = R(1)) =>
        /\ ~Dielectric_reflects(arg.material, arg.ray, arg.hit, arg.random)
        /\ ret[1].ray.direction = unit(arg.ray.direction)

\* C10 case: index 1.0, a slanted hit, the refract branch was taken and the
\* direction went straight through.
C10_RefractWitness ==
    /\ op = "scatter"
    /\ steps = 1
    /\ arg.material.refraction_index = R(1)
    /\ FLt(dot(VNeg(arg.ray.direction), arg.hit.normal), R(1))
    /\ ~Dielectric_reflects(arg.material, arg.ray, arg.hit, arg.random)
    /\ ret[1].ray.direction = unit(arg.ray.direction)

(***************************************************************************)
(* The output of one pixel: to_gamma, then write_color.                    *)
(***************************************************************************)
ColorChannels ==
    { R(-1), Q(-1, 100), R(0), Q(1, 65536), Q(1, 100), Q(1, 4), Q(1, 2),
      Q(99, 100), Q(998001, 1000000), R(1), R(2), R(4), INFINITY, NaN }

InitColor ==
    /\ op = "to_gamma"
    /\ arg \in {<<r, g, b>> : r \in ColorChannels, g \in ColorChannels,
                               b \in {R(-1), Q(1, 4), R(2)}}
    /\ ret = None
    /\ steps = 0

To_gamma ==
    /\ op = "to_gamma"
    /\ op' = "write_color"
    /\ ret' = to_gamma(arg)
    /\ steps' = 1
    /\ UNCHANGED arg

Write_color ==
    /\ op = "write_color"
    /\ op' = "printed"
    /\ ret' = write_color(ret)
    /\ steps' = 2
    /\ UNCHANGED arg

NextColor == To_gamma \/ Write_color

SpecColor == InitColor /\ [][NextColor]_vars

\* The number the claim gives for the channel c, by integers: 0 for a
\* channel that is not positive, 255 from 0.999 squared on, and else the k
\* with k * k <= 65536 * c < (k + 1) * (k + 1).
Quantized(c, k) ==
    /\ k \in 0..255
    /\ IF ~FGt(c, R(0)) THEN k = 0
       ELSE IF FGe(c, Q(998001, 1000000)) THEN k = 255
       ELSE /\ FLe(R(k * k), FMul(R(65536), c))
            /\ FLt(FMul(R(65536), c), R((k + 1) * (k + 1)))

\* C5: each printed channel is an integer in 0..255, the truncation of
\* 256 * clamp(sqrt(max(c, 0)), 0, 0.999), for every channel c (negative,
\* zero, above 1, infinite or NaN).
C5_QuantizedChannels ==
    op = "printed" =>
        \A i \in 1..3 :
            /\ Quantized(arg[i], ret[i])
            /\ ret[i] = FTrunc(FMul(R(256),
                   Interval_clamp(Interval_new(R(0), Q(999, 1000)),
                                  FSqrt(FMax(arg[i], R(0))))))

\* C5 case: a negative channel prints 0, a channel above 1 prints 255 and a
\* channel in between prints the gamma-encoded value (0.25 gives 128).
C5_Witness ==
    /\ op = "printed"
    /\ FLt(arg[1], R(0)) /\ ret[1] = 0
    /\ FGt(arg[2], R(1)) /\ ret[2] = 255
    /\ arg[3] = Q(1, 4) /\ ret[3] = 128

(***************************************************************************)
(* Camera::render (camera.rs).  A printed line is the sequence of its      *)
(* words.  What ray.send returns for the samples of a pixel is an input:   *)
(* arg.radiance[<<x, y>>].  ret holds the lines printed so far and the     *)
(* position of the two loops.                                              *)
(***************************************************************************)
\* An image is at most MaxWidth by MaxHeight pixels.
MaxWidth == 3
MaxHeight == 2

Radiances == {Vec3(0, 0, 0), <<Q(1, 4), R(1), R(4)>>}

Cameras ==
    UNION {[image_width : {w}, image_height : {h}, aa_samples : {1, 2},
            radiance : [(0..(w - 1)) \X (0..(h - 1)) -> Radiances]] :
               w \in 0..MaxWidth, h \in 0..MaxHeight}

aa_scale(camera) == FDiv(R(1), R(camera.aa_samples))

\* println!("{} {} {}", ..): the words of the line.
Line(numbers) == [i \in 1..Len(numbers) |-> ToString(numbers[i])]

\* color after the loop `for _ in 0..aa_samples { color += ray.send(..) }`.
RECURSIVE Samples(_, _, _)
Samples(camera, pixel, n) ==
    IF n <= 0 THEN Vec3(0, 0, 0)
    ELSE VAdd(Samples(camera, pixel, n - 1), camera.radiance[pixel])

\* The loops `for y in 0..image_height { for x in 0..image_width`: the
\* position after the pixel (x, y).
advance_columns(camera, x, y) ==
    IF y + 1 < camera.image_height THEN <<x, y + 1>> ELSE <<x + 1, 0>>

advance(camera, x, y) ==
    IF x + 1 < camera.image_width THEN <<x + 1, y>> ELSE <<0, y + 1>>

InitRender ==
    /\ op = "render"
    /\ arg \in Cameras
    /\ ret = [lines |-> <<>>, x |-> 0, y |-> 0]
    /\ steps = 0

\* println!("P3\n{} {}\n255", image_width, image_height)
Render_header ==
    /\ op = "render"
    /\ op' = "pixels"
    /\ ret' = [ret EXCEPT !.lines = @ \o << <<"P3">>,
                                           Line(<<arg.image_width, arg.image_height>>),
                                           Line(<<255>>) >>]
    /\ UNCHANGED <<arg, steps>>

\* One turn of the inner loop.
Render_pixel ==
    /\ op = "pixels"
    /\ ret.y < arg.image_height
    /\ ret.x < arg.image_width
    /\ LET color == Samples(arg, <<ret.x, ret.y>>, arg.aa_samples)
           next == advance(arg, ret.x, ret.y)
       IN  ret' = [lines |-> Append(ret.lines,
                        Line(write_color(to_gamma(VScale(color, aa_scale(arg)))))),
                   x |-> next[1], y |-> next[2]]
    /\ steps' = steps + 1
    /\ UNCHANGED <<op, arg>>

\* Both loops are over.
Render_return ==
    /\ op = "pixels"
    /\ ~(ret.y < arg.image_height /\ ret.x < arg.image_width)
    /\ op' = "rendered"
    /\ UNCHANGED <<arg, ret, steps>>

NextRender == Render_header \/ Render_pixel \/ Render_return

SpecRender == InitRender /\ [][NextRender]_vars

\* The line of the pixel (x, y).
PixelLine(camera, x, y) == Line(write_color(to_gamma(camera.radiance[<<x, y>>])))

\* C4: the lines are P3, "<image_width> <image_height>", 255, and then one
\* line per pixel, row by row and within a row column by column: the k-th
\* pixel line is the pixel (k % image_width, k \div image_width), nothing is
\* printed before the header, and at the end there are image_width *
\* image_height pixel lines.
C4_HeaderThenRowMajor ==
    op \in {"render", "pixels", "rendered"} =>
        /\ op = "render" <=> ret.lines = <<>>
        /\ op # "render" =>
              /\ Len(ret.lines) >= 3
              /\ ret.lines[1] = <<"P3">>
              /\ ret.lines[2] = <<ToString(arg.image_width), ToString(arg.image_height)>>
              /\ ret.lines[3] = <<"255">>
              /\ \A k \in 0..(Len(ret.lines) - 4) :
                    /\ k < arg.image_width * arg.image_height
                    /\ ret.lines[k + 4] =
                          PixelLine(arg, k % arg.image_width, k \div arg.image_width)
        /\ op = "rendered" => Len(ret.lines) = 3 + arg.image_width * arg.image_height

\* C4 case: an image of several rows and columns whose pixels differ was
\* printed completely.
C4_Witness ==
    /\ op = "rendered"
    /\ arg.image_width >= 3
    /\ arg.image_height >= 2
    /\ arg.radiance[<<1, 0>>] # arg.radiance[<<0, 1>>]
    /\ Len(ret.lines) = 3 + arg.image_width * arg.image_height
    /\ ret.lines[5] = <<"128", "255", "255">>

(***************************************************************************)
(* Ray::send (core/rays.rs).  `send` is the function itself; the actions   *)
(* run it call by call on a stack of frames, one frame per pending call:   *)
(* a frame is called ("call"), waits for the call it made ("wait"), or has *)
(* returned its color ("ret").  ret.queries counts the calls of            *)
(* self.hit(world, ..), ret.chosen lists what the random sources gave at   *)
(* each nesting level.                                                     *)
(***************************************************************************)
\* send is called with a depth of at most MaxDepth.
MaxDepth == 3

background(ray) == Vec3(0, 0, 0)

SendInterval == Interval_from_range(Q(1, 10000), INFINITY)

\* `if depth <= 0`, and a variant that lets depth 0 through.
depth_spent_late(depth) == depth < 0

depth_spent(depth) == depth <= 0

\* `emitted + attenuation * scattered.send(world, depth - 1)`, and a variant
\* without the attenuation.
returned_color_unattenuated(emission, attenuation, incoming) == VAdd(emission, incoming)

returned_color(emission, attenuation, incoming) ==
    VAdd(emission, VMul(attenuation, incoming))

\* The color of a hit: what the material emits, plus what comes in along
\* the scattered ray if the material scatters.
RECURSIVE send(_, _, _, _, _)
shade(world, ray, depth, chosen, level, emission, scattering) ==
    IF scattering = None THEN emission
    ELSE VAdd(emission, VMul(scattering[1].attenuation,
                             send(world, scattering[1].ray, depth - 1, chosen, level + 1)))

lit(world, ray, depth, chosen, level, hit) ==
    IF hit = None THEN background(ray)
    ELSE shade(world, ray, depth, chosen, level,
               emitted(hit[1].material, hit[1].u, hit[1].v, hit[1].point),
               scatter(hit[1].material, ray, hit[1],
                       chosen[level].unit, chosen[level].random))

send(world, ray, depth, chosen, level) ==
    IF depth <= 0 THEN Vec3(0, 0, 0)
    ELSE lit(world, ray, depth, chosen, level,
             Hit(world, ray, SendInterval, chosen[level].ln))

Frame(ray, depth) ==
    [ray |-> ray, depth |-> depth, pc |-> "call",
     emission |-> Vec3(0, 0, 0), attenuation |-> Vec3(0, 0, 0), value |-> Vec3(0, 0, 0)]

Returning(frame, color) == [frame EXCEPT !.pc = "ret", !.value = color]

Top(stack) == stack[Len(stack)]

WithTop(stack, frame) == [stack EXCEPT ![Len(stack)] = frame]

\* The top frame after emitted and scatter of the material that was hit.
after_scatter(stack, emission, scattering) ==
    IF scattering = None THEN WithTop(stack, Returning(Top(stack), emission))
    ELSE Append(WithTop(stack, [Top(stack) EXCEPT !.pc = "wait",
                                                  !.emission = emission,
                                                  !.attenuation = scattering[1].attenuation]),
                Frame(scattering[1].ray, Top(stack).depth - 1))

\* The top frame after self.hit(world, ..).
after_hit(stack, hit, choice) ==
    IF hit = None THEN WithTop(stack, Returning(Top(stack), background(Top(stack).ray)))
    ELSE after_scatter(stack,
             emitted(hit[1].material, hit[1].u, hit[1].v, hit[1].point),
             scatter(hit[1].material, Top(stack).ray, hit[1], choice.unit, choice.random))

Matte == Lambertian_from(<<Q(1, 2), Q(1, 2), Q(1, 2)>>)
Mirror == Metal_new(<<Q(4, 5), Q(4, 5), Q(4, 5)>>, R(0))
Brushed == Metal_new(<<Q(4, 5), Q(1, 2), Q(1, 2)>>, R(3))
Glass == Dielectric_new(Q(3, 2))
Lamp == DiffuseLight_from(Vec3(4, 4, 4))

\* A floor at y = -1 and a ceiling at y = 5.
Floor(material) ==
    Planar(Parallelogram_new(Vec3(-20, -1, -20), <<Vec3(40, 0, 0), Vec3(0, 0, 40)>>, material))

Ceiling(material) ==
    Planar(Parallelogram_new(Vec3(-20, 5, -20), <<Vec3(40, 0, 0), Vec3(0, 0, 40)>>, material))

Bead(material) == Sphere_new(Vec3(0, 1, 0), R(1), material)

\* A box of thin smoke standing on the plane y = 0.
Fog ==
    ConstantMedium_new(parallelepiped(Vec3(-1, 0, -1), Vec3(1, 2, 1), Matte), R(1),
                       SolidColor_new(<<Q(1, 2), R(1), R(1)>>))

Worlds ==
    { ListOf(<<>>),
      ListOf(<<Floor(Matte), Ceiling(Matte)>>),
      ListOf(<<Floor(Matte), Ceiling(Lamp)>>),
      ListOf(<<Floor(Mirror), Ceiling(Lamp)>>),
      ListOf(<<Floor(Brushed), Ceiling(Lamp)>>),
      ListOf(<<Floor(Lamp), Bead(Glass)>>),
      ListOf(<<Floor(Lamp), Fog>>),
      ListOf(<<Floor(Invisible), Ceiling(Matte)>>) }

SendRays ==
    { Ray(Vec3(0, 3, 0), Vec3(0, -1, 0)),
      Ray(Vec3(0, 3, 0), Vec3(0, 1, 0)),
      Ray(Vec3(3, 3, 0), Vec3(3, -4, 0)) }

\* What Vec3::random_unit(), rand::random() and rand::random().ln() give
\* in one call of send.
Choices ==
    { [unit |-> Vec3(0, 1, 0), random |-> R(0), ln |-> Q(-1, 2)],
      [unit |-> Vec3(0, -1, 0), random |-> Q(1, 2), ln |-> R(-1)],
      [unit |-> Vec3(1, 0, 0), random |-> Q(1, 2), ln |-> NEG_INFINITY],
      [unit |-> <<Q(3, 5), Q(4, 5), R(0)>>, random |-> R(0), ln |-> R(-1)] }

InitSend ==
    /\ op = "send"
    /\ arg \in [world : Worlds, ray : SendRays, depth : -1..MaxDepth]
    /\ ret = [stack |-> <<Frame(arg.ray, arg.depth)>>, queries |-> 0,
              chosen |-> <<>>, result |-> None]
    /\ steps = 0

\* `if depth <= 0 { return color(0.0, 0.0, 0.0); }`
Send_spent ==
    /\ op = "send"
    /\ Top(ret.stack).pc = "call"
    /\ depth_spent(Top(ret.stack).depth)
    /\ ret' = [ret EXCEPT !.stack = WithTop(@, Returning(Top(@), Vec3(0, 0, 0)))]
    /\ steps' = steps + 1
    /\ UNCHANGED <<op, arg>>

\* self.hit(world, ..), then emitted and scatter of the material; the call
\* returns, or calls scattered.send(world, depth - 1).
Send_hit ==
    \E choice \in Choices :
        /\ op = "send"
        /\ Top(ret.stack).pc = "call"
        /\ ~depth_spent(Top(ret.stack).depth)
        /\ ret' = [ret EXCEPT
                     !.queries = @ + 1,
                     !.chosen = Append(@, choice),
                     !.stack = after_hit(@, Hit(arg.world, Top(@).ray, SendInterval,
                                               choice.ln), choice)]
        /\ steps' = steps + 1
    /\ UNCHANGED <<op, arg>>

\* A call returns to the call that waits for it.
Send_return ==
    /\ op = "send"
    /\ Len(ret.stack) > 1
    /\ Top(ret.stack).pc = "ret"
    /\ LET n == Len(ret.stack)
       IN  ret' = [ret EXCEPT !.stack =
                      Append(SubSeq(@, 1, n - 2),
                             Returning(@[n - 1],
                                       returned_color(@[n - 1].emission,
                                                      @[n - 1].attenuation,
                                                      @[n].value)))]
    /\ steps' = steps + 1
    /\ UNCHANGED <<op, arg>>

\* The outermost call returns.
Send_done ==
    /\ op = "send"
    /\ Len(ret.stack) = 1
    /\ Top(ret.stack).pc = "ret"
    /\ op' = "returned"
    /\ ret' = [ret EXCEPT !.result = Some(Top(ret.stack).value)]
    /\ steps' = steps + 1
    /\ UNCHANGED arg

NextSend == Send_spent \/ Send_hit \/ Send_return \/ Send_done

SpecSend == InitSend /\ [][NextSend]_vars

\* The running program takes its next step: steps counts the steps taken,
\* and while send has not returned a step is possible (the top frame is
\* called or has returned, and each of the four actions covers its case).
Send_runs == op = "send" /\ steps' = steps + 1

SpecSendLive == SpecSend /\ WF_steps(Send_runs)

Max(a, b) == IF a > b THEN a ELSE b

\* C2: send returns; it asks the scene at most max(depth, 0) times and its
\* calls never nest deeper than depth below the first one, even where every
\* hit scatters; with depth <= 0 it returns black and asks nothing.
C2_DepthCap ==
    /\ [](op \in {"send", "returned"} =>
            /\ ret.queries <= Max(arg.depth, 0)
            /\ Len(ret.stack) <= Max(arg.depth, 0) + 1
            /\ (op = "returned" /\ arg.depth <= 0) =>
                  ret.queries = 0 /\ ret.result = Some(Vec3(0, 0, 0))
            /\ op = "send" => Top(ret.stack).pc \in {"call", "ret"})
    /\ <>(op = "returned")

\* C2 case: every hit scattered, depth calls asked the scene and the last,
\* nested depth deep, returned black without asking.
C2_Witness ==
    /\ op = "send"
    /\ arg.depth = MaxDepth
    /\ ret.queries = arg.depth
    /\ Len(ret.stack) = arg.depth + 1
    /\ Top(ret.stack).pc = "ret"

\* C3: for depth > 0 a call of send returns the background when nothing is
\* hit, emitted(hit) when the material does not scatter, and emitted(hit) +
\* attenuation * send(scattered, depth - 1) when it scatters.
C3_SendCases ==
    op \in {"send", "returned"} =>
        /\ \A level \in 1..Len(ret.stack) :
              (ret.stack[level].pc = "ret" /\ ret.stack[level].depth > 0) =>
                LET ray == ret.stack[level].ray
                    hit == Hit(arg.world, ray, SendInterval, ret.chosen[level].ln)
                    emission == emitted(hit[1].material, hit[1].u, hit[1].v, hit[1].point)
                    scattering == scatter(hit[1].material, ray, hit[1],
                                          ret.chosen[level].unit, ret.chosen[level].random)
                IN  ret.stack[level].value =
                      IF hit = None THEN Vec3(0, 0, 0)
                      ELSE IF scattering = None THEN emission
                      ELSE VAdd(emission,
                                VMul(scattering[1].attenuation,
                                     send(arg.world, scattering[1].ray,
                                          ret.stack[level].depth - 1,
                                          ret.chosen, level + 1)))
        /\ op = "returned" =>
              ret.result = Some(send(arg.world, arg.ray, arg.depth, ret.chosen, 1))

\* C3 case: the first hit scattered with an attenuation below 1, the
\* scattered ray reached a light, and the light came back attenuated.
C3_Witness ==
    /\ op = "returned"
    /\ arg.depth >= 2
    /\ Len(ret.chosen) = 2
    /\ ret.result = Some(Vec3(2, 2, 2))

(***************************************************************************)
(* Metal::new, then Metal::scatter with the material it built.             *)
(***************************************************************************)
FuzzValues ==
    { R(-2), R(-1), Q(-1, 2), Q(-1, 100), R(0), Q(1, 100), Q(3, 10), Q(1, 2),
      Q(99, 100), R(1), Q(101, 100), R(2), R(50), INFINITY, NEG_INFINITY, NaN }

MetalDirections == {Vec3(0, 0, -1), <<R(0), Q(3, 5), Q(-4, 5)>>, Vec3(0, -3, -4)}

MetalUnits == {Vec3(0, 0, 1), Vec3(1, 0, 0), <<Q(3, 5), R(0), Q(4, 5)>>}

InitMetal ==
    /\ op = "new"
    /\ arg \in [albedo : {<<Q(4, 5), Q(3, 5), Q(1, 5)>>}, fuzz : FuzzValues,
                 direction : MetalDirections, random_unit : MetalUnits]
    /\ ret = None
    /\ steps = 0

\* Metal::new(albedo, fuzz)
Metal_news ==
    /\ op = "new"
    /\ op' = "scatter"
    /\ ret' = Some(Metal_new(arg.albedo, arg.fuzz))
    /\ steps' = steps + 1
    /\ UNCHANGED arg

\* material.scatter(ray, hit) for a hit at the origin of a surface whose
\* outward normal is (0, 0, 1).
Metal_scatters ==
    /\ op = "scatter"
    /\ op' = "scattered"
    /\ ret' = Some([material |-> ret[1],
                    scattering |->
                        Metal_scatter(ret[1], Ray(VNeg(arg.direction), arg.direction),
                            HitRecord_new(Ray(VNeg(arg.direction), arg.direction), R(1),
                                          Vec3(0, 0, 0), Vec3(0, 0, 1), ret[1]),
                            arg.random_unit)])
    /\ steps' = steps + 1
    /\ UNCHANGED arg

NextMetal == Metal_news \/ Metal_scatters

SpecMetal == InitMetal /\ [][NextMetal]_vars

\* C11: the fuzz that Metal::new stores lies in [0, 1], whatever fuzz it
\* was given (negative, in range, above 1).
C11_FuzzInUnitRange ==
    op = "scatter" => FLe(R(0), ret[1].fuzz) /\ FLe(ret[1].fuzz, R(1))

\* C11 case: a fuzz above 1 was stored as 1.
C11_Witness ==
    /\ op = "scatter"
    /\ FGt(arg.fuzz, R(1))
    /\ ret[1].fuzz = R(1)

(***************************************************************************)
(* BoundNode::from_objects and BoundNode::from_list on their own, over     *)
(* every list of at most MaxObjects objects and every range within it.     *)
(***************************************************************************)
\* A list handed to the builder has at most MaxObjects objects.
MaxObjects == 5

BuildObjects ==
    { Sphere_new(Vec3(0, 0, 0), R(5), Grey),
      Sphere_new(Vec3(12, 0, 0), R(5), Grey),
      Planar(Parallelogram_new(Vec3(-5, -5, 30), <<Vec3(10, 0, 0), Vec3(0, 10, 0)>>, Grey)) }

BuildLists == UNION {[1..n -> BuildObjects] : n \in 0..MaxObjects}

InitBuild ==
    /\ op \in {"from_objects", "from_list"}
    /\ arg \in UNION {[objects : {l}, start : 0..Len(l), end : 0..Len(l)] : l \in BuildLists}
    /\ op = "from_list" => arg.start = 0 /\ arg.end = Len(arg.objects)
    /\ ret = None
    /\ steps = 0

\* BoundNode::from_objects(&objects, start..end)
From_objects ==
    /\ op = "from_objects"
    /\ steps = 0
    /\ steps' = 1
    /\ ret' = Some(BoundNode_from_objects(arg.objects, arg.start, arg.end))
    /\ UNCHANGED <<op, arg>>

\* BoundNode::from_list(list)
From_list ==
    /\ op = "from_list"
    /\ steps = 0
    /\ steps' = 1
    /\ ret' = Some(BoundNode_from_list(ListOf(arg.objects)))
    /\ UNCHANGED <<op, arg>>

NextBuild == From_objects \/ From_list

SpecBuild == InitBuild /\ [][NextBuild]_vars

\* C12: the builder aborts ("No objects in range") on an empty range and on
\* an empty list, and on nothing else: a build of a non-empty range returns
\* a node, so none of its nested calls was given an empty range.
C12_AbortsOnEmptyRangeOnly ==
    (op \in {"from_objects", "from_list"} /\ steps = 1) =>
        /\ arg.start >= arg.end <=> ret[1] = Panic("No objects in range")
        /\ arg.start < arg.end <=> ret[1].kind = "BoundNode"

\* C12 case: a range of five objects was built by nested calls, two levels
\* deep, and a node came back.
C12_Witness ==
    /\ op = "from_objects"
    /\ steps = 1
    /\ arg.end - arg.start = MaxObjects
    /\ ret[1].kind = "BoundNode"
    /\ ret[1].left.kind = "BoundNode"
    /\ ret[1].right.kind = "BoundNode"
    /\ ret[1].right.right.kind = "BoundNode"

(***************************************************************************)
(* SpecCamera: Camera::new and Camera::move_camera (camera.rs).  vfov is   *)
(* in degrees; tan(theta / 2) is sin(theta) / (1 + cos(theta)).            *)
(***************************************************************************)
TanHalfDeg(angle) == FDiv(SinDeg(angle), FAdd(R(1), CosDeg(angle)))

Camera_new(aspect_ratio, image_width, vfov, look_from, look_at, up, aa_samples, max_depth) ==
    LET height == FTrunc(FDiv(R(image_width), aspect_ratio))
        image_height == IF height >= 1 THEN height ELSE 1
        center == look_from
        focal_length == length(VSub(look_from, look_at))
        h == TanHalfDeg(vfov)
        viewport_height == FMul(FMul(R(2), h), focal_length)
        viewport_width == FMul(viewport_height, FDiv(R(image_width), R(image_height)))
        w == unit(VSub(look_from, look_at))
        u == unit(cross(up, w))
        v == cross(w, u)
        viewport_u == VScale(u, viewport_width)
        viewport_v == VScale(VNeg(v), viewport_height)
        pixel_delta_u == VDivS(viewport_u, R(image_width))
        pixel_delta_v == VDivS(viewport_v, R(image_height))
        viewport_upper_left ==
            VSub(VSub(VSub(center, VScale(w, focal_length)), VDivS(viewport_u, R(2))),
                 VDivS(viewport_v, R(2)))
        pixel_00 == VAdd(viewport_upper_left, VDivS(VAdd(pixel_delta_u, pixel_delta_v), R(2)))
    IN  [kind |-> "Camera", aspect_ratio |-> aspect_ratio, image_width |-> image_width,
         image_height |-> image_height, center |-> center, pixel_00 |-> pixel_00,
         pixel_delta_u |-> pixel_delta_u, pixel_delta_v |-> pixel_delta_v,
         vfov |-> vfov, look_from |-> look_from, look_at |-> look_at, up |-> up,
         aa_samples |-> aa_samples, aa_scale |-> FDiv(R(1), R(aa_samples)),
         max_depth |-> max_depth]

move_camera(self, look_from, look_at, up) ==
    LET center == look_from
        focal_length == length(VSub(look_from, look_at))
        h == TanHalfDeg(self.vfov)
        viewport_height == FMul(FMul(R(2), h), focal_length)
        viewport_width ==
            FMul(viewport_height, FDiv(R(self.image_width), R(self.image_height)))
        w == unit(VSub(look_from, look_at))
        u == unit(cross(up, w))
        v == cross(w, u)
        viewport_u == VScale(u, viewport_width)
        viewport_v == VScale(VNeg(v), viewport_height)
        pixel_delta_u == VDivS(viewport_u, R(self.image_width))
        pixel_delta_v == VDivS(viewport_v, R(self.image_height))
        viewport_upper_left ==
            VSub(VSub(VSub(center, VScale(w, focal_length)), VDivS(viewport_u, R(2))),
                 VDivS(viewport_v, R(2)))
    IN  [self EXCEPT !.look_from = look_from, !.look_at = look_at, !.up = up,
                     !.center = center,
                     !.pixel_delta_u = pixel_delta_u, !.pixel_delta_v = pixel_delta_v,
                     !.pixel_00 = VAdd(viewport_upper_left,
                                       VDivS(VAdd(pixel_delta_u, pixel_delta_v), R(2)))]

Eyes == {Vec3(0, 0, 0), Vec3(0, 0, 5), Vec3(0, 3, 4)}
Targets == {Vec3(0, 0, 0), Vec3(0, 0, -1)}
Ups == {Vec3(0, 1, 0), Vec3(0, 0, 1), Vec3(0, 0, 0)}
Views == [look_from : Eyes, look_at : Targets, up : Ups]

\* eye = target, or up parallel to eye - target (the zero up included).
Degenerate(view) ==
    \/ view.look_from = view.look_at
    \/ cross(view.up, VSub(view.look_from, view.look_at)) = Vec3(0, 0, 0)

HasNaN(v) == IsNaN(v[1]) \/ IsNaN(v[2]) \/ IsNaN(v[3])

\* Image shapes, seen from (0, 0, 5) towards the origin.
ImageRatios == {Q(16, 9), R(2), R(3), Q(1, 2), Q(3, 2), R(-1), R(1000)}
ImageWidths == {400, 3, 1, 0}
FrontView == [look_from |-> Vec3(0, 0, 5), look_at |-> Vec3(0, 0, 0), up |-> Vec3(0, 1, 0)]

InitCamera ==
    /\ op = "new"
    /\ arg \in [aspect_ratio : {R(1), R(2)}, image_width : {2, 4}, vfov : {53, 90},
                first : Views, second : Views]
               \cup [aspect_ratio : ImageRatios, image_width : ImageWidths, vfov : {90},
                     first : {FrontView}, second : {FrontView}]
    /\ ret = None
    /\ steps = 0

Camera_news ==
    /\ op = "new"
    /\ op' = "move_camera"
    /\ ret' = Some(Camera_new(arg.aspect_ratio, arg.image_width, arg.vfov,
                              arg.first.look_from, arg.first.look_at, arg.first.up, 1, 1))
    /\ steps' = steps + 1
    /\ UNCHANGED arg

Move_camera ==
    /\ op = "move_camera"
    /\ op' = "moved"
    /\ ret' = Some(move_camera(ret[1], arg.second.look_from, arg.second.look_at,
                               arg.second.up))
    /\ steps' = steps + 1
    /\ UNCHANGED arg

NextCamera == Camera_news \/ Move_camera

SpecCamera == InitCamera /\ [][NextCamera]_vars

\* C13: Camera::new and Camera::move_camera abort with an error, instead of
\* returning a camera, when eye = target or up is parallel to eye - target.
C13_DegenerateBasisAborts ==
    /\ (op = "move_camera" /\ Degenerate(arg.first)) => IsPanic(ret[1])
    /\ (op = "moved" /\ Degenerate(arg.second)) => IsPanic(ret[1])

\* Both constructors return a camera for a degenerate basis; its first pixel
\* is not a point.
C13_Witness ==
    /\ op = "moved"
    /\ Degenerate(arg.first)
    /\ Degenerate(arg.second)
    /\ ret[1].kind = "Camera"
    /\ HasNaN(ret[1].pixel_00)

(***************************************************************************)
(* SpecSphere: Sphere::hit (models/shapes.rs).                             *)
(***************************************************************************)
Spheres ==
    { Sphere_new(Vec3(0, 0, 0), R(5), Grey),
      Sphere_new(Vec3(0, 0, 10), R(5), Grey),
      Sphere_new(Vec3(0, 3, 0), Q(5, 2), Grey) }

SphereOrigins ==
    {Vec3(0, 0, 0), Vec3(0, 3, -10), Vec3(0, 5, -10), Vec3(0, 6, -10), Vec3(0, 1, -10),
     Vec3(0, 0, 5)}

SphereDirections == {Vec3(0, 0, 1), Vec3(0, 0, 2), Vec3(0, 0, -1), Vec3(0, 3, 4), Vec3(0, 0, 0)}

SphereIntervals ==
    { Interval_from_range(Q(1, 10000), INFINITY),
      Interval_universe,
      Interval_empty,
      Interval_from_range(R(0), R(6)),
      Interval_from_range(R(6), R(14)),
      Interval_from_range(R(5), R(15)),
      Interval_from_range(R(-5), R(5)),
      Interval_from_range(R(-1), R(1)) }

InitSphere ==
    /\ op = "hit"
    /\ arg \in [sphere : Spheres, origin : SphereOrigins, direction : SphereDirections,
                t : SphereIntervals]
    /\ ret = None
    /\ steps = 0

\* sphere.hit(ray, t); ret is <<result>> once it returned.
Sphere_hits ==
    /\ op = "hit"
    /\ op' = "returned"
    /\ ret' = Some(Sphere_hit(arg.sphere, Ray(arg.origin, arg.direction), arg.t))
    /\ steps' = steps + 1
    /\ UNCHANGED arg

NextSphere == Sphere_hits

SpecSphere == InitSphere /\ [][NextSphere]_vars

\* The quadratic of the claim: a t^2 - 2 h t + c = 0 for |origin + t d - center| = radius.
SphereA == length_squared(arg.direction)
SphereH == dot(arg.direction, VSub(arg.sphere.center, arg.origin))
SphereC ==
    FSub(length_squared(VSub(arg.sphere.center, arg.origin)),
         FMul(arg.sphere.radius, arg.sphere.radius))
SphereDiscriminant == FSub(FMul(SphereH, SphereH), FMul(SphereA, SphereC))
SmallerRoot == FDiv(FSub(SphereH, FSqrt(SphereDiscriminant)), SphereA)
LargerRoot == FDiv(FAdd(SphereH, FSqrt(SphereDiscriminant)), SphereA)
StrictlyInside(i, x) == FLt(i.start, x) /\ FLt(x, i.end)
\* The square root of the discriminant is exact in the model.
ExactRoots == FMul(FSqrt(SphereDiscriminant), FSqrt(SphereDiscriminant)) = SphereDiscriminant

\* C14: Sphere::hit returns no hit when the discriminant is negative;
\* otherwise the smaller root if it is strictly inside the query interval,
\* else the larger root if that one is, else no hit; a reported hit has t
\* strictly inside the interval and its point ray.at(t) is on the sphere.
C14_NearestRootInside ==
    op = "returned" =>
        LET hit == ret[1]
        IN  /\ FLt(SphereDiscriminant, R(0)) => hit = None
            /\ ~FLt(SphereDiscriminant, R(0)) =>
                 IF StrictlyInside(arg.t, SmallerRoot)
                 THEN IsSome(hit) /\ hit[1].t = SmallerRoot
                 ELSE IF StrictlyInside(arg.t, LargerRoot)
                 THEN IsSome(hit) /\ hit[1].t = LargerRoot
                 ELSE hit = None
            /\ IsSome(hit) =>
                 /\ StrictlyInside(arg.t, hit[1].t)
                 /\ FLe(SmallerRoot, LargerRoot)
                 /\ hit[1].point = at(Ray(arg.origin, arg.direction), hit[1].t)
                 /\ ExactRoots =>
                      length_squared(VSub(hit[1].point, arg.sphere.center))
                        = FMul(arg.sphere.radius, arg.sphere.radius)

\* The smaller root is outside the interval and the larger root is reported.
C14_Witness ==
    /\ op = "returned"
    /\ IsSome(ret[1])
    /\ ExactRoots
    /\ FLt(SmallerRoot, LargerRoot)
    /\ ret[1][1].t = LargerRoot
    /\ FLe(SmallerRoot, arg.t.start)
    /\ length_squared(VSub(ret[1][1].point, arg.sphere.center)) = R(25)

(***************************************************************************)
(* SpecPlanar: Planar::hit (models/shapes.rs) on a Parallelogram or a      *)
(* Triangle, and Parallelogram::hit on the Parallelogram itself.           *)
(***************************************************************************)
UnitSquare == Parallelogram_new(Vec3(0, 0, 0), <<Vec3(1, 0, 0), Vec3(0, 1, 0)>>, Grey)

UnitTriangle == Triangle_new(<<Vec3(0, 0, 0), Vec3(1, 0, 0), Vec3(0, 1, 0)>>, Grey)

FlatShapes ==
    { UnitSquare,
      Parallelogram_new(Vec3(0, 0, 0), <<Vec3(3, 0, 4), Vec3(0, 2, 0)>>, Grey),
      UnitTriangle,
      Triangle_new(<<Vec3(0, 0, 0), Vec3(3, 0, 4), Vec3(0, 2, 0)>>, Grey) }

FlatOrigins ==
    { <<Q(1, 2), Q(1, 2), R(-5)>>, <<Q(1, 4), Q(1, 4), R(-1)>>, Vec3(1, 1, -5),
      Vec3(1, 0, -5), Vec3(2, 0, -5), <<Q(1, 2), R(3), R(-5)>>,
      <<Q(-1, 4), Q(1, 4), R(-1)>>,
      <<Q(1, 4), Q(1, 4), R(0)>>, <<Q(1, 4), Q(1, 4), R(5)>> }

FlatDirections ==
    { Vec3(0, 0, 1), Vec3(0, 0, 2), Vec3(0, 0, -1), Vec3(1, 0, 0), Vec3(0, 1, 0),
      Vec3(0, 0, 0) }

\* A direction across the plane z = 0 with |dot(D, n)| < 1e-8 for a unit n.
ShortDirection == <<R(0), R(0), Q(1, 250000000)>>

FlatIntervals ==
    { Interval_from_range(Q(1, 10000), INFINITY),
      Interval_universe,
      Interval_from_range(R(0), R(5)),
      Interval_from_range(R(5), R(10)),
      Interval_from_range(R(0), R(1)) }

InitPlanar ==
    /\ op = "hit"
    /\ arg \in [shape : FlatShapes, origin : FlatOrigins, direction : FlatDirections,
                t : FlatIntervals]
               \cup [shape : {UnitSquare, UnitTriangle},
                     origin : {<<Q(1, 4), Q(1, 4), R(-1)>>, <<Q(-1, 4), Q(1, 4), R(-1)>>},
                     direction : {ShortDirection}, t : FlatIntervals]
    /\ ret = [direct |-> None, planar |-> None]
    /\ steps = 0

\* shape.hit(ray, t) on the Parallelogram itself.
Parallelogram_hits ==
    /\ op = "hit"
    /\ arg.shape.kind = "Parallelogram"
    /\ ret.direct = None
    /\ ret' = [ret EXCEPT !.direct =
                 Some(Parallelogram_hit(arg.shape, Ray(arg.origin, arg.direction), arg.t))]
    /\ steps' = steps + 1
    /\ UNCHANGED <<op, arg>>

\* Planar::Parallelogram(shape).hit(ray, t) or Planar::Triangle(shape).hit(ray, t).
Planar_hits ==
    /\ op = "hit"
    /\ ret.planar = None
    /\ ret' = [ret EXCEPT !.planar =
                 Some(Planar_hit(Planar(arg.shape), Ray(arg.origin, arg.direction), arg.t))]
    /\ steps' = steps + 1
    /\ UNCHANGED <<op, arg>>

NextPlanar == Parallelogram_hits \/ Planar_hits

SpecPlanar == InitPlanar /\ [][NextPlanar]_vars

\* The supporting plane of the shape and the ray's plane point.
FlatCorner == IF arg.shape.kind = "Triangle" THEN arg.shape.vertex[1] ELSE arg.shape.corner
FlatU ==
    IF arg.shape.kind = "Triangle" THEN VSub(arg.shape.vertex[2], arg.shape.vertex[1])
    ELSE arg.shape.sides[1]
FlatV ==
    IF arg.shape.kind = "Triangle" THEN VSub(arg.shape.vertex[3], arg.shape.vertex[1])
    ELSE arg.shape.sides[2]
\* dot(D, n), n the normal the shape stores: unit for a Parallelogram, the
\* cross product of the edges for a Triangle.
FlatDenominator == dot(arg.direction, arg.shape.normal)
PlaneParameter ==
    FDiv(dot(VSub(FlatCorner, arg.origin), arg.shape.normal), FlatDenominator)
PlanePoint == VAdd(arg.origin, VScale(arg.direction, PlaneParameter))
\* (alpha, beta) with PlanePoint = corner + alpha u + beta v, by Cramer's rule.
FlatAlpha ==
    FDiv(dot(cross(VSub(PlanePoint, FlatCorner), FlatV), cross(FlatU, FlatV)),
         length_squared(cross(FlatU, FlatV)))
FlatBeta ==
    FDiv(dot(cross(FlatU, VSub(PlanePoint, FlatCorner)), cross(FlatU, FlatV)),
         length_squared(cross(FlatU, FlatV)))
NearParallel == FLt(FAbs(FlatDenominator), Q(1, 100000000))
MeetsPlaneInside == FLe(arg.t.start, PlaneParameter) /\ FLe(PlaneParameter, arg.t.end)
InUnitRange(x) == FLe(R(0), x) /\ FLe(x, R(1))

TriangleInterior ==
    FGe(FlatAlpha, R(0)) /\ FGe(FlatBeta, R(0)) /\ FLe(FAdd(FlatAlpha, FlatBeta), R(1))

\* C16 as stated: Planar::Triangle reports a hit exactly when the ray meets
\* the supporting plane at a parameter inside the query interval and
\* alpha >= 0, beta >= 0, alpha + beta <= 1; the reported t is the plane
\* parameter.
C16_TriangleHit ==
    (op = "hit" /\ arg.shape.kind = "Triangle" /\ ret.planar # None) =>
        /\ IsSome(ret.planar[1]) <=> (MeetsPlaneInside /\ TriangleInterior)
        /\ IsSome(ret.planar[1]) => ret.planar[1][1].t = PlaneParameter

\* C16, amended: the same, for the rays that Plane::hit does not reject as
\* near-parallel: the hit is reported exactly when, in addition,
\* |dot(D, n)| >= 1e-8 with n = (vertex1 - vertex0) x (vertex2 - vertex0).
C16_TriangleHitUnlessNearParallel ==
    (op = "hit" /\ arg.shape.kind = "Triangle" /\ ret.planar # None) =>
        /\ IsSome(ret.planar[1]) <=> (~NearParallel /\ MeetsPlaneInside /\ TriangleInterior)
        /\ IsSome(ret.planar[1]) =>
             /\ ret.planar[1][1].t = PlaneParameter
             /\ ret.planar[1][1].point = PlanePoint
             /\ VAdd(FlatCorner, VAdd(VScale(FlatU, FlatAlpha), VScale(FlatV, FlatBeta)))
                  = PlanePoint

\* A hit on the hypotenuse (alpha + beta = 1) is reported.
C16_Witness ==
    /\ op = "hit"
    /\ arg.shape.kind = "Triangle"
    /\ ret.planar # None
    /\ IsSome(ret.planar[1])
    /\ FAdd(FlatAlpha, FlatBeta) = R(1)
    /\ ret.planar[1][1].t = R(5)

(***************************************************************************)
(* SpecMedium: ConstantMedium::hit (models/volumes.rs) with a sphere as    *)
(* the boundary.                                                           *)
(***************************************************************************)
Media ==
    { ConstantMedium_new(Sphere_new(Vec3(0, 0, 0), R(5), Grey), d, Smoke) :
        d \in {R(1), Q(1, 10), R(4)} }

\* A boundary thinner than 1e-4.
ThinMedium == ConstantMedium_new(Sphere_new(Vec3(0, 0, 0), Q(1, 40000), Grey), R(1), Smoke)

MediumOrigins == {Vec3(0, 0, -10), Vec3(0, 3, -10), Vec3(0, 0, 0), Vec3(0, 0, 10), Vec3(0, 6, -10)}

MediumDirections == {Vec3(0, 0, 1), Vec3(0, 0, 2), Vec3(0, 0, -1), Vec3(0, 3, 4)}

MediumIntervals ==
    { Interval_from_range(Q(1, 10000), INFINITY),
      Interval_universe,
      Interval_from_range(R(0), R(8)),
      Interval_from_range(R(6), R(7)),
      Interval_from_range(R(-4), R(-1)),
      Interval_from_range(R(20), R(30)) }

\* ln(rand::random()), rand::random() in [0, 1).
MediumDraws == {Q(-1, 100), Q(-1, 2), R(-1), R(-3), R(-20), NEG_INFINITY}

InitMedium ==
    /\ op = "hit"
    /\ arg \in [medium : Media, origin : MediumOrigins, direction : MediumDirections,
                t : MediumIntervals, lnU : MediumDraws]
               \cup [medium : {ThinMedium}, origin : {Vec3(0, 0, 0)},
                     direction : MediumDirections, t : MediumIntervals, lnU : MediumDraws]
    /\ ret = None
    /\ steps = 0

\* medium.hit(ray, t); ret is <<result>> once it returned.
Medium_hits ==
    /\ op = "hit"
    /\ op' = "returned"
    /\ ret' = Some(Hit(arg.medium, Ray(arg.origin, arg.direction), arg.t, arg.lnU))
    /\ steps' = steps + 1
    /\ UNCHANGED arg

NextMedium == Medium_hits

SpecMedium == InitMedium /\ [][NextMedium]_vars

\* Where the ray enters and leaves the boundary: the boundary's hit on the
\* whole line, and its next hit beyond that one + 1e-4.
MediumEntry == Sphere_hit(arg.medium.boundary, Ray(arg.origin, arg.direction), Interval_universe)
MediumExit ==
    Sphere_hit(arg.medium.boundary, Ray(arg.origin, arg.direction),
               Interval_from_range(FAdd(MediumEntry[1].t, Q(1, 10000)), INFINITY))
ClippedEntry == FMax(MediumEntry[1].t, arg.t.start)
ClippedExit == FMin(MediumExit[1].t, arg.t.end)
\* The sampled free-flight distance, -(1 / density) * ln(random).
FreeFlight == FMul(arg.medium.neg_inv_density, arg.lnU)
DistanceInside == FMul(FSub(ClippedExit, FMax(ClippedEntry, R(0))), length(arg.direction))

\* C17: with density > 0, ConstantMedium::hit reports nothing when the
\* boundary has no entry, or no exit beyond entry + 1e-4, or entry >= exit
\* after clipping to the query interval, or the sampled distance exceeds
\* the distance inside; a reported t is between max(entry, query.start, 0)
\* and min(exit, query.end), and the record carries the Isotropic material.
C17_MediumHitInsideBoundary ==
    op = "returned" =>
        /\ MediumEntry = None => ret[1] = None
        /\ (MediumEntry # None /\ MediumExit = None) => ret[1] = None
        /\ (MediumEntry # None /\ MediumExit # None) =>
             /\ FGe(ClippedEntry, ClippedExit) => ret[1] = None
             /\ FGt(FreeFlight, DistanceInside) => ret[1] = None
             /\ ret[1] # None =>
                  /\ FLe(FMax(FMax(MediumEntry[1].t, arg.t.start), R(0)), ret[1][1].t)
                  /\ FLe(ret[1][1].t, FMin(MediumExit[1].t, arg.t.end))
                  /\ ret[1][1].material = arg.medium.phase_function
                  /\ ret[1][1].material.kind = "Isotropic"

\* An interaction inside a query interval that is narrower than the boundary.
C17_Witness ==
    /\ op = "returned"
    /\ ret[1] # None
    /\ FLt(MediumEntry[1].t, arg.t.start)
    /\ FGt(MediumExit[1].t, arg.t.end)
    /\ FLt(arg.t.start, ret[1][1].t)
    /\ FLt(ret[1][1].t, arg.t.end)
    /\ ret[1][1].material.kind = "Isotropic"

(***************************************************************************)
(* Dielectric::scatter and total internal reflection (SpecDielectric).     *)
(***************************************************************************)
\* cos of the angle between the normalized, negated incoming direction and
\* the normal of the hit record.
TrueCos == dot(VNeg(unit(arg.ray.direction)), arg.hit.normal)
\* ratio * sin(theta) <= 1, squared: ratio^2 * (1 - cos^2) <= 1.
CanRefract ==
    FLe(FMul(FMul(refraction_ratio(arg.material, arg.hit),
                  refraction_ratio(arg.material, arg.hit)),
             FSub(R(1), FMul(TrueCos, TrueCos))),
        R(1))
RefractInvoked ==
    /\ op = "scatter"
    /\ steps = 1
    /\ ~Dielectric_reflects(arg.material, arg.ray, arg.hit, arg.random)

\* C18: Dielectric::scatter invokes Vec3::refract only when total internal
\* reflection is impossible, ratio * sin(theta) <= 1 for the true angle
\* theta, for incoming rays of any length.
C18_RefractOnlyWithoutTIR == RefractInvoked => CanRefract

\* refract is invoked for a direction of length 5 that leaves the glass at
\* an angle below the critical one.
C18_Witness ==
    /\ RefractInvoked
    /\ length_squared(arg.ray.direction) = R(25)
    /\ ~arg.hit.front_face
    /\ arg.material.refraction_index = Q(3, 2)
    /\ CanRefract

(***************************************************************************)
(* SpecSendNodes: Ray::send over worlds made of one node of every kind,    *)
(* lying in or around the plane y = 0.                                     *)
(***************************************************************************)
Ground == Parallelogram_new(Vec3(-20, 0, -20), <<Vec3(40, 0, 0), Vec3(0, 0, 40)>>, Matte)
Wedge == Triangle_new(<<Vec3(-6, 0, -6), Vec3(6, 0, -6), Vec3(0, 0, 6)>>, Matte)
Globe == Sphere_new(Vec3(0, -5, 0), R(5), Matte)

Basement == Planar(Parallelogram_new(Vec3(-20, -2, -20), <<Vec3(40, 0, 0), Vec3(0, 0, 40)>>, Lamp))

FlatNodes ==
    { Ground, Planar(Ground), Wedge, Planar(Wedge),
      Plane_new(Vec3(0, 0, 0), Vec3(0, 1, 0)),
      Translation_new(Planar(Ground), Vec3(0, -1, 0)),
      RotateY_new(Planar(Ground), 90),
      BoundNode_from_list(ListOf(<<Planar(Ground), Basement>>)),
      ListOf(<<Basement, Planar(Ground)>>) }

RoundNodes == {Globe, ConstantMedium_new(Globe, R(1), Smoke)}

\* Rays down to the plane y = 0 from 1e-4 above it (by a unit and by a
\* longer direction), from above, from the plane itself, and away from it.
NodeRays ==
    { Ray(<<R(0), Q(1, 10000), R(0)>>, Vec3(0, -1, 0)),
      Ray(<<R(0), Q(1, 5000), R(0)>>, Vec3(0, -2, 0)),
      Ray(Vec3(0, 3, 0), Vec3(0, -1, 0)),
      Ray(Vec3(0, 0, 0), Vec3(0, -1, 0)),
      Ray(Vec3(0, 3, 0), Vec3(0, 1, 0)) }

InitSendNodes ==
    /\ op = "send"
    /\ arg \in [world : {ListOf(<<node>>) : node \in FlatNodes}, ray : NodeRays, depth : {1}]
               \cup [world : {ListOf(<<node>>) : node \in RoundNodes},
                     ray : {Ray(Vec3(0, 3, 0), Vec3(0, -1, 0)),
                            Ray(Vec3(0, 0, 0), Vec3(0, -1, 0)),
                            Ray(Vec3(0, -5, 0), Vec3(0, 0, 2))},
                     depth : {1}]
    /\ ret = [stack |-> <<Frame(arg.ray, arg.depth)>>, queries |-> 0,
              chosen |-> <<>>, result |-> None]
    /\ steps = 0

SpecSendNodes == InitSendNodes /\ [][NextSend]_vars

\* The record that the call at this level of the stack got from self.hit.
Accepted(level) ==
    Hit(arg.world, ret.stack[level].ray, SendInterval, ret.chosen[level].ln)

\* C19: every hit that Ray::send accepts from the scene has t strictly
\* greater than 1e-4, whatever kind of node the scene contains.
C19_AcceptedBeyondStart ==
    op \in {"send", "returned"} =>
        \A level \in 1..Len(ret.chosen) :
            Accepted(level) # None => FGt(Accepted(level)[1].t, Q(1, 10000))

\* send accepts a hit of the sphere at t = 3 and returns.
C19_Witness ==
    /\ op = "returned"
    /\ arg.world = ListOf(<<Globe>>)
    /\ Len(ret.chosen) = 1
    /\ Accepted(1) # None
    /\ Accepted(1)[1].t = R(3)

(***************************************************************************)
(* SpecScatter: Material::scatter and Material::emitted of every material  *)
(* (surfaces/materials.rs) for one hit record.                             *)
(***************************************************************************)
Materials ==
    { Matte, Mirror, Brushed, Glass, Dielectric_new(R(1)), Lamp,
      DiffuseLight_from(Vec3(0, 0, 0)), Invisible, Isotropic_new(Smoke) }

ScatterDirections ==
    {Vec3(0, 0, -1), <<R(0), Q(-4, 5), Q(-3, 5)>>, Vec3(0, -3, -4), Vec3(0, 4, 3)}

ScatterPoints == {Vec3(0, 0, 0), <<Q(1, 2), R(-3), R(7)>>}

\* Vec3::random_unit(); (0, 0, -1) cancels the normal of a front-face hit.
ScatterUnits == {Vec3(0, 0, 1), Vec3(0, 0, -1), Vec3(1, 0, 0), <<Q(3, 5), R(0), Q(4, 5)>>}

InitScatter ==
    /\ op = "hit"
    /\ arg \in {[material |-> m,
                 ray |-> Ray(VSub(p, d), d),
                 hit |-> set_uv(HitRecord_new(Ray(VSub(p, d), d), R(1), p, Vec3(0, 0, 1), m),
                                Q(1, 4), Q(3, 4)),
                 random_unit |-> unit_vector,
                 random |-> u] :
                   m \in Materials, d \in ScatterDirections, p \in ScatterPoints,
                   unit_vector \in ScatterUnits, u \in {R(0), Q(1, 2), Q(999, 1000)}}
    /\ ret = [scattering |-> None, emission |-> None]
    /\ steps = 0

\* record.material.emitted(record.u, record.v, &record.point)
Material_emits ==
    /\ op = "hit"
    /\ ret.emission = None
    /\ ret' = [ret EXCEPT !.emission =
                 Some(emitted(arg.material, arg.hit.u, arg.hit.v, arg.hit.point))]
    /\ steps' = steps + 1
    /\ UNCHANGED <<op, arg>>

\* record.material.scatter(ray, &record)
Material_scatters ==
    /\ op = "hit"
    /\ ret.scattering = None
    /\ ret' = [ret EXCEPT !.scattering =
                 Some(scatter(arg.material, arg.ray, arg.hit, arg.random_unit, arg.random))]
    /\ steps' = steps + 1
    /\ UNCHANGED <<op, arg>>

NextScatter == Material_emits \/ Material_scatters

SpecScatter == InitScatter /\ [][NextScatter]_vars

\* C20: scatter returns nothing or one (ray, attenuation) pair whose ray
\* starts at the hit point; Lambertian, Metal, Dielectric and Isotropic
\* always scatter, DiffuseLight and Invisible never; only DiffuseLight
\* emits, the value of its texture at the hit's u, v; the attenuation of a
\* Dielectric is (1, 1, 1).
C20_ScatterAndEmission ==
    /\ ret.scattering # None =>
         LET scattering == ret.scattering[1]
         IN  /\ scattering = None \/ Len(scattering) = 1
             /\ scattering # None =>
                  /\ DOMAIN scattering[1] = {"ray", "attenuation"}
                  /\ scattering[1].ray.origin = arg.hit.point
             /\ arg.material.kind \in {"Lambertian", "Metal", "Dielectric", "Isotropic"}
                  => scattering # None
             /\ arg.material.kind \in {"DiffuseLight", "Invisible"} => scattering = None
             /\ arg.material.kind = "Dielectric"
                  => scattering[1].attenuation = Vec3(1, 1, 1)
    /\ ret.emission # None =>
         /\ arg.material.kind = "DiffuseLight" =>
              ret.emission[1] = Texture_value(arg.material.texture, arg.hit.u, arg.hit.v,
                                              arg.hit.point)
         /\ arg.material.kind # "DiffuseLight" => ret.emission[1] = Vec3(0, 0, 0)

\* A light emitted and did not scatter.
C20_Witness ==
    /\ arg.material = Lamp
    /\ ret.scattering = Some(None)
    /\ ret.emission = Some(Vec3(4, 4, 4))

(***************************************************************************)
(* SpecPixels: Camera::render on a scene (camera.rs 132-165), sample by    *)
(* sample.  arg is the camera and the world handed to render; ret holds    *)
(* the position of the loops, the samples taken for the pixel at hand, the *)
(* color accumulated for it, and the pixel printed last.                   *)
(***************************************************************************)
\* `&self`, `world: &HittableList`, and the `&self` of hit, bound, scatter,
\* emitted and value: the callee holds a shared reference, and no type of
\* the program has interior mutability, so what is behind the reference
\* after the call is what was behind it before.  The variant is what a
\* callee with `&mut self` may do (set_max_depth, add_arc).
shared_as_mut(value) ==
    IF value.kind = "Camera" THEN [value EXCEPT !.max_depth = @ - 1]
    ELSE add_arc(value, Sphere_new(Vec3(0, 0, 0), R(1), Invisible))

shared(value) == value

\* The ray through the center of the pixel (the lines commented out in
\* render), whatever the offset.
sample_ray_centered(camera, x, y, offset) ==
    LET pixel_center ==
            VAdd(VAdd(camera.pixel_00, VScale(camera.pixel_delta_u, R(x))),
                 VScale(camera.pixel_delta_v, R(y)))
    IN  Ray(camera.center, VSub(pixel_center, camera.center))

\* Camera::sample_ray, with what Vec3::sample_square() gave.
sample_ray(camera, x, y, offset) ==
    LET pixel_sample ==
            VAdd(VAdd(camera.pixel_00,
                      VScale(camera.pixel_delta_u, FAdd(R(x), offset[1]))),
                 VScale(camera.pixel_delta_v, FAdd(R(y), offset[2])))
    IN  Ray(camera.center, VSub(pixel_sample, camera.center))

\* What Vec3::sample_square() gives: gen_range(-0.5..0.5) twice, and 0.
Jitters == {<<Q(-1, 2), Q(-1, 2), R(0)>>, Vec3(0, 0, 0), <<Q(1, 4), Q(-1, 4), R(0)>>}

PixelCameras ==
    {Camera_new(aspect_ratio, image_width, 90, Vec3(0, 0, 5), Vec3(0, 0, 0), Vec3(0, 1, 0),
                aa_samples, max_depth) :
        aspect_ratio \in {R(1), R(2)}, image_width \in {1, 2},
        aa_samples \in {0, 1, 2}, max_depth \in {1, 2}}

PixelWorlds ==
    { ListOf(<<Floor(Matte), Ceiling(Lamp)>>),
      ListOf(<<Floor(Lamp), Ceiling(Mirror)>>),
      HittableList_from(BoundNode_from_list(ListOf(<<Floor(Matte), Ceiling(Lamp)>>))) }

\* The random sources give the same in every call of send of one sample.
ChoiceRuns ==
    {[level \in 1..MaxDepth |-> choice] :
        choice \in {[unit |-> Vec3(0, 1, 0), random |-> R(0), ln |-> R(-1)],
                    [unit |-> Vec3(0, -1, 0), random |-> Q(1, 2), ln |-> R(-1)]}}

InitPixels ==
    /\ op = "pixels of"
    /\ arg \in [camera : PixelCameras, world : PixelWorlds]
    /\ ret = [x |-> 0, y |-> 0, rays |-> <<>>, color |-> Vec3(0, 0, 0), printed |-> None]
    /\ steps = 0

\* `let ray = self.sample_ray(x, y); color += ray.send(world, self.max_depth);`
sampled(state, offset, ray, depth, radiance) ==
    [state EXCEPT !.rays = Append(@, [offset |-> offset, ray |-> ray, depth |-> depth,
                                      radiance |-> radiance]),
                  !.color = VAdd(@, radiance)]

\* One turn of `for _ in 0..self.aa_samples`.
Pixel_sample ==
    \E offset \in Jitters, chosen \in ChoiceRuns :
        /\ op = "pixels of"
        /\ ret.y < arg.camera.image_height
        /\ ret.x < arg.camera.image_width
        /\ Len(ret.rays) < arg.camera.aa_samples
        /\ ret' = sampled(ret, offset, sample_ray(arg.camera, ret.x, ret.y, offset),
                          arg.camera.max_depth,
                          send(arg.world, sample_ray(arg.camera, ret.x, ret.y, offset),
                               arg.camera.max_depth, chosen, 1))
        /\ arg' = [camera |-> shared(arg.camera), world |-> shared(arg.world)]
        /\ steps' = steps + 1
        /\ UNCHANGED op

\* `(color * self.aa_scale).to_gamma().write_color()`, and the next pixel.
Pixel_print ==
    /\ op = "pixels of"
    /\ ret.y < arg.camera.image_height
    /\ ret.x < arg.camera.image_width
    /\ ~(Len(ret.rays) < arg.camera.aa_samples)
    /\ LET next == advance(arg.camera, ret.x, ret.y)
       IN  ret' = [x |-> next[1], y |-> next[2], rays |-> <<>>, color |-> Vec3(0, 0, 0),
                   printed |-> Some([x |-> ret.x, y |-> ret.y, rays |-> ret.rays,
                                     line |-> write_color(to_gamma(
                                         VScale(ret.color, arg.camera.aa_scale)))])]
    /\ arg' = [camera |-> shared(arg.camera), world |-> arg.world]
    /\ steps' = steps + 1
    /\ UNCHANGED op

\* Both loops are over.
Pixel_return ==
    /\ op = "pixels of"
    /\ ~(ret.y < arg.camera.image_height /\ ret.x < arg.camera.image_width)
    /\ op' = "pixels done"
    /\ UNCHANGED <<arg, ret, steps>>

NextPixels == Pixel_sample \/ Pixel_print \/ Pixel_return

SpecPixels == InitPixels /\ [][NextPixels]_vars

(***************************************************************************)
(* SpecScene: render, and after it the queries that render does not make   *)
(* itself: bound of the world, and value of the texture of an object.      *)
(***************************************************************************)
\* world.bound()
Scene_bound ==
    /\ op = "pixels done"
    /\ op' = "bound"
    /\ ret' = Some(bound(arg.world))
    /\ arg' = [camera |-> arg.camera, world |-> shared(arg.world)]
    /\ steps' = steps + 1

\* texture.value(u, v, p) of the material of an object of the world.
Scene_value ==
    \E i \in 1..Len(arg.world.objects), u \in {R(0), Q(1, 2)} :
        /\ op = "bound"
        /\ arg.world.objects[i].kind = "Planar"
        /\ "texture" \in DOMAIN arg.world.objects[i].inner.material
        /\ op' = "value"
        /\ ret' = Some(Texture_value(arg.world.objects[i].inner.material.texture,
                                     u, u, Vec3(0, 0, 0)))
        /\ arg' = [camera |-> arg.camera, world |-> shared(arg.world)]
        /\ steps' = steps + 1

NextScene == NextPixels \/ Scene_bound \/ Scene_value

SpecScene == InitPixels /\ [][NextScene]_vars

WholeQuotient(image_width, ratio) ==
    LET magnitude == (Abs(image_width) * ratio[2]) \div Abs(ratio[1])
    IN  IF Sgn(image_width) * Sgn(ratio[1]) < 0 THEN -magnitude ELSE magnitude

\* C22: the camera that Camera::new returns has image_height = the whole
\* part of image_width / aspect_ratio, and 1 where that is below 1; it is
\* 225 for image_width 400 and aspect_ratio 16 / 9.
C22_ImageHeight ==
    op = "move_camera" =>
        LET whole == WholeQuotient(arg.image_width, arg.aspect_ratio)
        IN  /\ ret[1].image_height = (IF whole >= 1 THEN whole ELSE 1)
            /\ (arg.image_width = 400 /\ arg.aspect_ratio = Q(16, 9))
                  => ret[1].image_height = 225

\* C22 case: Camera::new(16 / 9, 400, ..) returned a camera 225 rows high.
C22_Witness ==
    /\ op = "move_camera"
    /\ arg.image_width = 400
    /\ arg.aspect_ratio = Q(16, 9)
    /\ ret[1].image_height = 225
    /\ ret[1].image_width = 400

(***************************************************************************)
(* C23, on SpecHit.                                                        *)
(***************************************************************************)
\* C23: when Triangle::hit of a triangle that stands in the scene by itself
\* reports a hit, the record has t = 0 and the point ray.origin +
\* ray.direction; the answer is the same for every interval (it is the
\* answer for the empty interval).
C23_BareTriangleAtZero ==
    (op = "hit" /\ steps = 1 /\ arg.node.kind = "Triangle") =>
        /\ ret # None =>
              /\ ret[1].t = R(0)
              /\ ret[1].point = VAdd(arg.ray.origin, arg.ray.direction)
        /\ ret = Hit(arg.node, arg.ray, Interval_empty, arg.lnU)

\* C23 case: the interval starts after 0 and the ray meets the plane of the
\* triangle elsewhere (the Planar triangle reports another parameter), and
\* the hit is reported at t = 0 in origin + direction.
C23_Witness ==
    /\ op = "hit"
    /\ steps = 1
    /\ arg.node = Slanted
    /\ arg.ray = Ray(Vec3(0, 0, -10), Vec3(0, 0, 1))
    /\ arg.t = Interval_from_range(Q(1, 10000), INFINITY)
    /\ ret # None
    /\ ret[1].t = R(0)
    /\ ret[1].point = Vec3(0, 0, -9)
    /\ Planar_hit(Planar(Slanted), arg.ray, arg.t)[1].t # R(0)

(***************************************************************************)
(* C24, on SpecBuild.  A node built over n objects has, below it, n leaves *)
(* (a node over one object holds it twice and counts once).                *)
(***************************************************************************)
RECURSIVE LeavesBelow(_, _)
LeavesBelow(node, n) ==
    IF n = 1 THEN <<node.left>>
    ELSE IF n = 2 THEN <<node.left, node.right>>
    ELSE LeavesBelow(node.left, n \div 2) \o LeavesBelow(node.right, n - n \div 2)

Occurrences(seq, x) == Cardinality({i \in DOMAIN seq : seq[i] = x})

\* The start of the object's box on the longest axis of the node's box.
SplitKey(node, object) == bound(object)[longest_axis(node.bounds)].start

\* The node over n objects is built by the rule: one object twice, or two
\* objects, or two nodes over n / 2 and n - n / 2 objects of which no
\* object on the left starts after one on the right; its box contains the
\* box of every leaf below it.
RECURSIVE SplitByRule(_, _)
SplitByRule(node, n) ==
    /\ node.kind = "BoundNode"
    /\ \A i \in 1..Len(LeavesBelow(node, n)) :
          BoxWithin(bound(LeavesBelow(node, n)[i]), node.bounds)
    /\ n = 1 => node.left = node.right
    /\ n >= 3 =>
          /\ SplitByRule(node.left, n \div 2)
          /\ SplitByRule(node.right, n - n \div 2)
          /\ \A i \in 1..(n \div 2), j \in 1..(n - n \div 2) :
                FLe(SplitKey(node, LeavesBelow(node.left, n \div 2)[i]),
                    SplitKey(node, LeavesBelow(node.right, n - n \div 2)[j]))

\* C24: a build over the n >= 1 objects of a range returns a node split by
\* the rule; for n = 1 and n = 2 its children are the objects of the range
\* in the order of the list; the leaves below it are the objects of the
\* range, each as often as it is in the range; every node's box contains
\* the boxes of its leaves; the list handed in is as it was.
C24_SplitRule ==
    (op \in {"from_objects", "from_list"} /\ steps = 1 /\ arg.start < arg.end) =>
        LET n == arg.end - arg.start
            range == SubSeq(arg.objects, arg.start + 1, arg.end)
            leaves == LeavesBelow(ret[1], n)
        IN  /\ SplitByRule(ret[1], n)
            /\ n <= 2 => leaves = range
            /\ Len(leaves) = n
            /\ \A i \in 1..n : Occurrences(leaves, range[i]) = Occurrences(range, range[i])
            /\ ret[1].bounds = RangeBounds(arg.objects, arg.start, arg.end)

\* C24 case: five objects that were not in order on the longest axis, with
\* a repeated object, were sorted and split in two and three.
C24_Witness ==
    /\ op = "from_objects"
    /\ steps = 1
    /\ arg.end - arg.start = 5
    /\ LeavesBelow(ret[1], 5) # SubSeq(arg.objects, arg.start + 1, arg.end)
    /\ Len(LeavesBelow(ret[1].left, 2)) = 2
    /\ Len(LeavesBelow(ret[1].right, 3)) = 3
    /\ \E i, j \in 1..5 : i < j /\ arg.objects[i] = arg.objects[j]
    /\ SplitByRule(ret[1], 5)

(***************************************************************************)
(* C25, on SpecHit.                                                        *)
(***************************************************************************)
\* What the wrapped object answers to the ray moved back by the offset.
WrappedHit ==
    Hit(arg.node.object, Ray(VSub(arg.ray.origin, arg.node.offset), arg.ray.direction),
        arg.t, arg.lnU)

\* C25: Translation::hit reports no hit exactly when the wrapped object
\* reports none for the ray with origin - offset, same direction, same
\* interval; otherwise its record has the wrapped record's t, normal,
\* front_face, u, v and material, and the wrapped point + offset (for a
\* wrapped sphere that is the point of the caller's ray at t); its bound
\* is the wrapped bound with the offset added to both ends on every axis.
C25_TranslationIsShiftedHit ==
    (op = "hit" /\ steps = 1 /\ arg.node.kind = "Translation") =>
        /\ ret = None <=> WrappedHit = None
        /\ ret # None =>
              /\ ret[1].t = WrappedHit[1].t
              /\ ret[1].normal = WrappedHit[1].normal
              /\ ret[1].front_face = WrappedHit[1].front_face
              /\ ret[1].u = WrappedHit[1].u
              /\ ret[1].v = WrappedHit[1].v
              /\ ret[1].material = WrappedHit[1].material
              /\ ret[1].point = VAdd(WrappedHit[1].point, arg.node.offset)
              /\ DOMAIN ret[1] = DOMAIN WrappedHit[1]
              /\ arg.node.object.kind = "Sphere" => ret[1].point = at(arg.ray, ret[1].t)
        /\ \A k \in 1..3 :
              /\ bound(arg.node)[k].start
                    = FAdd(bound(arg.node.object)[k].start, arg.node.offset[k])
              /\ bound(arg.node)[k].end
                    = FAdd(bound(arg.node.object)[k].end, arg.node.offset[k])

\* C25 case: the ball moved by (1, 0, 2) is hit, the answer is not the
\* ball's own answer to the same ray, and the point is on the caller's ray
\* and not the point of the wrapped record.
C25_Witness ==
    /\ op = "hit"
    /\ steps = 1
    /\ arg.node = Translation_new(Ball, Vec3(1, 0, 2))
    /\ ret # None
    /\ ret[1].point = at(arg.ray, ret[1].t)
    /\ ret[1].point # WrappedHit[1].point
    /\ Hit(Ball, arg.ray, arg.t, arg.lnU) # ret

(***************************************************************************)
(* C26, on SpecPixels.                                                     *)
(***************************************************************************)
\* The sum of the radiances of the samples.
RECURSIVE Radiance(_)
Radiance(rays) ==
    IF rays = <<>> THEN Vec3(0, 0, 0)
    ELSE VAdd(Radiance(SubSeq(rays, 1, Len(rays) - 1)), rays[Len(rays)].radiance)

\* -0.5 <= x < 0.5
InHalfOpenHalf(x) == FLe(Q(-1, 2), x) /\ FLt(x, Q(1, 2))

\* The sample is one of the pixel (x, y): its ray starts in the camera's
\* center and goes through the point of the pixel grid at x + offset.0,
\* y + offset.1, with both offsets in [-0.5, 0.5), and was sent with
\* max_depth.
SampleOfPixel(camera, x, y, sample) ==
    /\ InHalfOpenHalf(sample.offset[1])
    /\ InHalfOpenHalf(sample.offset[2])
    /\ sample.ray.origin = camera.center
    /\ VAdd(sample.ray.origin, sample.ray.direction)
          = VAdd(camera.pixel_00,
                 VAdd(VScale(camera.pixel_delta_u, FAdd(R(x), sample.offset[1])),
                      VScale(camera.pixel_delta_v, FAdd(R(y), sample.offset[2]))))
    /\ sample.depth = camera.max_depth

\* C26: a printed pixel has exactly aa_samples samples, each a sample of
\* that pixel sent with max_depth, and its line is the sum of their
\* radiances times 1 / aa_samples, gamma encoded and quantized: nothing of
\* another pixel enters.  While a pixel is sampled it has at most aa_samples
\* samples, all of that pixel, and color is the sum of their radiances.
C26_PixelIsMeanOfItsSamples ==
    op \in {"pixels of", "pixels done"} =>
        /\ Len(ret.rays) <= arg.camera.aa_samples
        /\ \A k \in 1..Len(ret.rays) : SampleOfPixel(arg.camera, ret.x, ret.y, ret.rays[k])
        /\ ret.color = Radiance(ret.rays)
        /\ ret.printed # None =>
              /\ Len(ret.printed[1].rays) = arg.camera.aa_samples
              /\ \A k \in 1..Len(ret.printed[1].rays) :
                    SampleOfPixel(arg.camera, ret.printed[1].x, ret.printed[1].y,
                                  ret.printed[1].rays[k])
              /\ ret.printed[1].line =
                    write_color(to_gamma(VScale(Radiance(ret.printed[1].rays),
                                                FDiv(R(1), R(arg.camera.aa_samples)))))

\* C26 case: the second pixel of an image was printed from two samples with
\* different offsets, one that reached the light and one that did not; the
\* line is the mean of the two.
C26_Witness ==
    /\ op = "pixels of"
    /\ ret.printed # None
    /\ ret.printed[1].x + ret.printed[1].y > 0
    /\ arg.camera.aa_samples = 2
    /\ Len(ret.printed[1].rays) = 2
    /\ ret.printed[1].rays[1].offset # ret.printed[1].rays[2].offset
    /\ ret.printed[1].rays[1].radiance = Vec3(0, 0, 0)
    /\ ret.printed[1].rays[2].radiance # Vec3(0, 0, 0)
    /\ ret.printed[1].line # <<0, 0, 0>>

(***************************************************************************)
(* SpecCameraCalls: a camera is constructed and then reconfigured by some  *)
(* calls of set_aa_samples, set_max_depth and move_camera (camera.rs       *)
(* 91-130).  ret.camera is the camera, ret.before the camera before the    *)
(* last call, op the last call.                                            *)
(***************************************************************************)
\* A camera is reconfigured at most MaxCalls times.
MaxCalls == 3

\* A set_aa_samples that leaves aa_scale as it was.
set_aa_samples_scaleKept(self, aa_samples) == [self EXCEPT !.aa_samples = aa_samples]

set_aa_samples(self, aa_samples) ==
    [self EXCEPT !.aa_samples = aa_samples, !.aa_scale = FDiv(R(1), R(aa_samples))]

set_max_depth(self, max_depth) == [self EXCEPT !.max_depth = max_depth]

SampleCounts == {1, 4, 0}
Depths == {1, 10}
CallViews ==
    { FrontView,
      [look_from |-> Vec3(0, 3, 4), look_at |-> Vec3(0, 0, 0), up |-> Vec3(0, 1, 0)],
      [look_from |-> Vec3(0, 0, 0), look_at |-> Vec3(0, 0, 0), up |-> Vec3(0, 1, 0)] }

InitCameraCalls ==
    /\ op = "Camera::new"
    /\ arg \in [aspect_ratio : {R(1), R(2)}, image_width : {2, 4}, vfov : {53, 90},
                view : CallViews, aa_samples : {1, 2}, max_depth : {1}]
    /\ ret = None
    /\ steps = 0

Camera_created ==
    /\ op = "Camera::new"
    /\ op' = "new"
    /\ LET camera == Camera_new(arg.aspect_ratio, arg.image_width, arg.vfov,
                                arg.view.look_from, arg.view.look_at, arg.view.up,
                                arg.aa_samples, arg.max_depth)
       IN  ret' = [camera |-> camera, before |-> camera]
    /\ UNCHANGED <<arg, steps>>

Camera_set_aa_samples ==
    \E aa_samples \in SampleCounts :
        /\ op \notin {"Camera::new"}
        /\ steps < MaxCalls
        /\ op' = "set_aa_samples"
        /\ ret' = [camera |-> set_aa_samples(ret.camera, aa_samples), before |-> ret.camera]
        /\ steps' = steps + 1
        /\ UNCHANGED arg

Camera_set_max_depth ==
    \E max_depth \in Depths :
        /\ op \notin {"Camera::new"}
        /\ steps < MaxCalls
        /\ op' = "set_max_depth"
        /\ ret' = [camera |-> set_max_depth(ret.camera, max_depth), before |-> ret.camera]
        /\ steps' = steps + 1
        /\ UNCHANGED arg

Camera_moved ==
    \E view \in CallViews :
        /\ op \notin {"Camera::new"}
        /\ steps < MaxCalls
        /\ op' = "move_camera"
        /\ ret' = [camera |-> move_camera(ret.camera, view.look_from, view.look_at, view.up),
                   before |-> ret.camera]
        /\ steps' = steps + 1
        /\ UNCHANGED arg

NextCameraCalls ==
    Camera_created \/ Camera_set_aa_samples \/ Camera_set_max_depth \/ Camera_moved

SpecCameraCalls == InitCameraCalls /\ [][NextCameraCalls]_vars

\* The fields of the two cameras are equal, but for those named.
SameBut(camera, before, fields) ==
    \A f \in (DOMAIN before) \ fields : camera[f] = before[f]

\* C27: after Camera::new and any calls of set_aa_samples, set_max_depth
\* and move_camera, aa_scale = 1 / aa_samples, center = look_from, and the
\* whole camera, pixel_00, pixel_delta_u and pixel_delta_v with it, is the
\* camera Camera::new makes from the current aspect_ratio, image_width,
\* vfov, look_from, look_at, up, aa_samples and max_depth; set_aa_samples
\* changes aa_samples and aa_scale only, set_max_depth max_depth only.
C27_DerivedStateConsistent ==
    op \in {"new", "set_aa_samples", "set_max_depth", "move_camera"} =>
        LET camera == ret.camera
            fresh == Camera_new(camera.aspect_ratio, camera.image_width, camera.vfov,
                                camera.look_from, camera.look_at, camera.up,
                                camera.aa_samples, camera.max_depth)
        IN  /\ camera.aa_scale = FDiv(R(1), R(camera.aa_samples))
            /\ camera.center = camera.look_from
            /\ camera.pixel_00 = fresh.pixel_00
            /\ camera.pixel_delta_u = fresh.pixel_delta_u
            /\ camera.pixel_delta_v = fresh.pixel_delta_v
            /\ camera = fresh
            /\ op = "set_aa_samples" => SameBut(camera, ret.before, {"aa_samples", "aa_scale"})
            /\ op = "set_max_depth" => SameBut(camera, ret.before, {"max_depth"})

\* C27 case: a camera was moved, given four samples and then ten levels of
\* depth; it looks from another point than when it was made, and its pixel
\* grid moved with it.
C27_Witness ==
    /\ op = "set_max_depth"
    /\ steps = 3
    /\ ret.camera.max_depth = 10
    /\ ret.camera.aa_samples = 4
    /\ ret.camera.aa_scale = Q(1, 4)
    /\ arg.aa_samples = 1
    /\ ret.camera.look_from = Vec3(0, 3, 4)
    /\ arg.view = FrontView
    /\ ret.camera.center = Vec3(0, 3, 4)
    /\ ~HasNaN(ret.camera.pixel_00)

(***************************************************************************)
(* SpecList: HittableList::hit (hittable.rs 78-91) over lists of up to     *)
(* three members that answer within the interval they are asked with.      *)
(***************************************************************************)
\* A square in the plane z = -5, where the ray from (0, 0, -10) meets Ball.
TieSquare == Planar(Parallelogram_new(Vec3(-5, -5, -5), <<Vec3(10, 0, 0), Vec3(0, 10, 0)>>, Matte))

ListMembers ==
    { Ball,
      Sphere_new(Vec3(0, 0, 3), R(5), Matte),
      Planar(Square),
      TieSquare,
      HittableList_from(Sphere_new(Vec3(0, 0, 20), R(5), Grey)),
      Translation_new(Ball, Vec3(0, 0, -8)),
      ConstantMedium_new(Sphere_new(Vec3(0, 0, -1), R(5), Grey), Q(1, 10), Smoke) }

MemberLists == UNION {[1..n -> ListMembers] : n \in 0..2}
                  \cup {<<Planar(Square), Ball, TieSquare>>, <<TieSquare, Planar(Square), Ball>>}

ListRays ==
    { Ray(Vec3(0, 0, -10), Vec3(0, 0, 1)),
      Ray(Vec3(0, 0, 10), Vec3(0, 0, -2)),
      Ray(Vec3(0, 0, 0), Vec3(0, 0, 1)),
      Ray(Vec3(0, 9, -10), Vec3(0, 0, 1)) }

ListIntervals ==
    { Interval_from_range(Q(1, 10000), INFINITY),
      Interval_from_range(R(0), R(12)),
      Interval_from_range(R(6), R(45)),
      Interval_from_range(R(5), R(5)) }

InitList ==
    /\ op = "list hit"
    /\ arg \in [list : {ListOf(l) : l \in MemberLists}, ray : ListRays, t : ListIntervals,
                lnU : {R(-1), Q(-1, 100)}]
    /\ ret = None
    /\ steps = 0

\* list.hit(ray, t); ret is Some(answer) once it returned.
List_hits ==
    /\ op = "list hit"
    /\ steps = 0
    /\ steps' = 1
    /\ ret' = Some(Hit(arg.list, arg.ray, arg.t, arg.lnU))
    /\ UNCHANGED <<op, arg>>

NextList == List_hits

SpecList == InitList /\ [][NextList]_vars

\* What the members answer, each asked by itself with the caller's interval.
MemberHits ==
    {Hit(arg.list.objects[i], arg.ray, arg.t, arg.lnU) : i \in 1..Len(arg.list.objects)}
        \ {None}

\* C28: the list answers no hit exactly when no member is hit in the
\* interval; otherwise its answer is the answer of a member, no member's
\* answer has a smaller t, and t is in the caller's interval (ends
\* included); the empty list answers no hit.
C28_ListReturnsNearest ==
    (op = "list hit" /\ steps = 1) =>
        /\ ret[1] = None <=> MemberHits = {}
        /\ ret[1] # None =>
              /\ ret[1] \in MemberHits
              /\ \A m \in MemberHits : FLe(ret[1][1].t, m[1].t)
              /\ contains(arg.t, ret[1][1].t)
        /\ arg.list.objects = <<>> => ret[1] = None

\* C28 case: three members are hit at t = 13, 5 and 5; the answer is the
\* third member's, at t = 5, and not the first hit found.
C28_Witness ==
    /\ op = "list hit"
    /\ steps = 1
    /\ arg.list.objects = <<Planar(Square), Ball, TieSquare>>
    /\ arg.ray = Ray(Vec3(0, 0, -10), Vec3(0, 0, 1))
    /\ Cardinality(MemberHits) = 3
    /\ ret[1] # None
    /\ ret[1][1].t = R(5)
    /\ ret[1][1].material = Matte

(***************************************************************************)
(* C29, on SpecBVH.  The box of the tree's root is the union of the boxes  *)
(* of the objects of the list, so every object lies inside it.             *)
(***************************************************************************)
\* C29: when an object of the list is hit at a t strictly inside the
\* interval (the scan of the list found it), the slab test of the box
\* around the objects answers true for the ray and the interval.
C29_SlabKeepsRealHits ==
    (IsSome(ret[1].tree) /\ "scan" \in ret[1].asked /\ IsSome(ret[1].scan)
        /\ surrounds(arg.t, ret[1].scan[1].t))
      => BoundingBox_hit(ret[1].tree[1].bounds, arg.ray, arg.t)

\* The ray along the face x = 5 of the box touches the sphere at (5, 0, 0),
\* t = 10; the slab test answers false and the tree reports no hit.
C29_Witness ==
    /\ ret[1].asked = {"scan", "bvh"}
    /\ arg.objects = <<BvhObjects[1]>>
    /\ arg.ray = Ray(Vec3(5, 0, -10), Vec3(0, 0, 1))
    /\ arg.t = Interval_from_range(Q(1, 10000), INFINITY)
    /\ ret[1].scan # None
    /\ ret[1].scan[1].t = R(10)
    /\ ret[1].scan[1].point = Vec3(5, 0, 0)
    /\ BoxWithin(bound(BvhObjects[1]), ret[1].tree[1].bounds)
    /\ ~BoundingBox_hit(ret[1].tree[1].bounds, arg.ray, arg.t)
    /\ ret[1].bvh = None

(***************************************************************************)
(* SpecTexture: ColorTexture::value (surfaces/textures.rs 96-104) on a      *)
(* grid of width * height pixels, stored row by row.  Indexing a Vec past   *)
(* its end panics.                                                          *)
(***************************************************************************)
ColorTexture_new(data, width, height) ==
    [kind |-> "ColorTexture", data |-> data, width |-> width, height |-> height]

\* x and y of ColorTexture::value.
ColorTexture_cell(tex, u, v) ==
    LET cu == Interval_clamp(Interval_new(R(0), R(1)), u)
        cv == FSub(R(1), Interval_clamp(Interval_new(R(0), R(1)), v))
    IN  [x |-> FTrunc(FMul(cu, R(tex.width))), y |-> FTrunc(FMul(cv, R(tex.height)))]

\* self.data[y * self.width + x]; the Vec is indexed from 0.
ColorTexture_value(tex, u, v, p) ==
    LET cell == ColorTexture_cell(tex, u, v)
        index == cell.y * tex.width + cell.x
    IN  IF index < Len(tex.data) THEN tex.data[index + 1]
        ELSE Panic("index out of bounds")

\* The pixel in row y, column x has the color (x, y, 0).
Grids ==
    {ColorTexture_new([i \in 1..(w * h) |-> Vec3((i - 1) % w, (i - 1) \div w, 0)], w, h) :
        w \in {1, 2, 3}, h \in {1, 2}}

TextureCoordinates == {R(0), Q(1, 3), Q(1, 2), Q(2, 3), Q(999, 1000), R(1), R(-1), R(2), NaN}

InitTexture ==
    /\ op = "value"
    /\ arg \in [texture : Grids, u : TextureCoordinates, v : TextureCoordinates]
    /\ ret = None
    /\ steps = 0

\* texture.value(u, v, p)
Texture_values ==
    /\ op = "value"
    /\ steps = 0
    /\ steps' = 1
    /\ ret' = Some(ColorTexture_value(arg.texture, arg.u, arg.v, Vec3(0, 0, 0)))
    /\ UNCHANGED <<op, arg>>

NextTexture == Texture_values

SpecTexture == InitTexture /\ [][NextTexture]_vars

\* C30: for every u and v the column index is in 0..width - 1, the row
\* index in 0..height - 1, and value returns a pixel of the grid (the
\* lookup does not index past the end of the data).
C30_TextureLookupInGrid ==
    (op = "value" /\ steps = 1) =>
        LET cell == ColorTexture_cell(arg.texture, arg.u, arg.v)
        IN  /\ cell.x \in 0..(arg.texture.width - 1)
            /\ cell.y \in 0..(arg.texture.height - 1)
            /\ ret[1] = Vec3(cell.x, cell.y, 0)

\* On a grid of 2 by 2 pixels, value(1, 0, p) computes column 2 and row 2
\* and the lookup of data[6] panics.
C30_Witness ==
    /\ op = "value"
    /\ steps = 1
    /\ arg.texture.width = 2
    /\ arg.texture.height = 2
    /\ arg.u = R(1)
    /\ arg.v = R(0)
    /\ ColorTexture_cell(arg.texture, arg.u, arg.v) = [x |-> 2, y |-> 2]
    /\ ret[1] = Panic("index out of bounds")

=============================================================================
